---- MODULE Spec2Model ----
(***************************************************************************)
(* SustainSync DataEntry workspace: the CSV codec (parseCsv, stringifyCsv), *)
(* the validation rule set (validateRows) and the editable grid state of    *)
(* the DataEntry component; and the sort state, the sortedRows comparator   *)
(* and the page fetch (loadBills) of the two Tables components (MUI and     *)
(* plain).                                                                  *)
(*                                                                          *)
(* Texts are TLA+ strings; a character is a string of length one.  A        *)
(* record is a function from header names to cell texts; a key that is not  *)
(* in the record's domain reads as Undefined, as in JavaScript.             *)
(***************************************************************************)
EXTENDS Integers, Sequences, FiniteSets, TLC

VARIABLES
    \* ---- CSV codec harness
    csvIn,      \* the drawn input: raw text, a table (H, R) or a list of lines
    csvText,    \* the text handed to parseCsv
    scan,       \* parseCsv's locals: i, currentField, currentRow, rows, inQuotes
    csvPhase,   \* "scan" while the for loop runs, "done" after the return
    csvOut,     \* the value parseCsv returned ({headers, rows})
    \* ---- validation harness
    vrows,      \* the batch handed to validateRows
    vissues,    \* the issues validateRows returned
    vcursor,    \* row-major position of the last cell changed (0: none yet)
    vpokes,     \* cells of the batch changed so far
    \* ---- DataEntry component
    headers,    \* useState(REQUIRED_FIELDS)
    rows,       \* useState([])
    issues,     \* useState([])
    uploadState,\* useState(null)
    fileName,   \* useState('preview.csv')
    reads,      \* FileReader reads in progress, each with the headers its
                \* onload closure captured
    uploads,    \* upload requests awaiting their response, each with the
                \* number of the user operation that sent it
    ops,        \* user operations handled so far
    \* ---- Tables component
    tablesVersion, \* "mui" (part_002) or "plain" (part_003)
    sortConfig, \* useState({key: 'bill_date', direction: 'desc'}) / useState(null)
    page,       \* useState(1)
    totalPages, \* useState(1), as the last fetch set it
    tableRows,  \* the Tables component's rows: the fetched page of bills
    \* ---- Tables component: the fetch of a page
    utility,    \* useState(UTILITY_OPTIONS[0])
    pageSize,   \* useState(DEFAULT_PAGE_SIZE)
    totalCount, \* useState(0)
    loading,    \* useState(false)
    fetches,    \* loadBills calls awaiting their response, each with the
                \* parameters of the render that made the call
    tableOps    \* user operations on the table handled so far

csvVars == <<csvIn, csvText, scan, csvPhase, csvOut>>
valVars == <<vrows, vissues, vcursor, vpokes>>
gridVars == <<headers, rows, issues, uploadState, fileName, reads, uploads, ops>>
tableVars == <<tablesVersion, sortConfig, page, totalPages, tableRows>>
fetchVars == <<utility, pageSize, totalCount, loading, fetches, tableOps>>

\* What each component leaves alone: the variables of the others.
csvOthers == <<valVars, gridVars, tableVars, fetchVars>>
valOthers == <<csvVars, gridVars, tableVars, fetchVars>>
gridOthers == <<csvVars, valVars, tableVars, fetchVars>>
tableOthers == <<csvVars, valVars, gridVars, fetchVars>>
fetchOthers == <<csvVars, valVars, gridVars>>

vars == <<csvIn, csvText, scan, csvPhase, csvOut, vrows, vissues, vcursor, vpokes,
          headers, rows, issues, uploadState, fileName, reads, uploads, ops,
          tablesVersion, sortConfig, page, totalPages, tableRows,
          utility, pageSize, totalCount, loading, fetches, tableOps>>

----------------------------------------------------------------------------
(* JavaScript values                                                        *)

\* The values undefined and null; neither is a text a file or an input yields.
Undefined == "<undefined>"
Null == "<null>"

DQuote == "\""
Comma == ","
LF == "\n"
CR == "\r"

\* text[i] with a 0-based index i: undefined outside the text.
CharAt(text, i) ==
    IF i >= 0 /\ i < Len(text) THEN SubSeq(text, i + 1, i + 1) ELSE Undefined

\* text.substring(from - 1, to): the characters at 1-based positions from..to
\* that exist.
Slice(text, from, to) ==
    LET last == IF to > Len(text) THEN Len(text) ELSE to
    IN  IF from < 1 \/ from > last THEN "" ELSE SubSeq(text, from, last)

RECURSIVE Join(_, _)
\* Array.prototype.join on an array of texts.
Join(parts, sep) ==
    IF Len(parts) = 0 THEN ""
    ELSE IF Len(parts) = 1 THEN parts[1]
    ELSE parts[1] \o sep \o Join(Tail(parts), sep)

----------------------------------------------------------------------------
(* parseCsv                                                                 *)

ScanInit == [i |-> 0, field |-> "", row |-> <<>>, rows |-> <<>>, inQuotes |-> FALSE]

\* pushField: currentRow.push(currentField); currentField = ''
pushField(s) == [s EXCEPT !.row = Append(s.row, s.field), !.field = ""]

\* pushRow: if (currentRow.length) rows.push(currentRow); currentRow = []
pushRow(s) ==
    [s EXCEPT !.rows = IF Len(s.row) > 0 THEN Append(s.rows, s.row) ELSE s.rows,
              !.row = <<>>]

\* A variant of the loop body that does not consume the LF of a CRLF pair.
ScanStepNoCrLf(text, s) ==
    LET char == CharAt(text, s.i) IN
    IF char = DQuote THEN
        IF s.inQuotes /\ CharAt(text, s.i + 1) = DQuote
        THEN [s EXCEPT !.field = s.field \o DQuote, !.i = s.i + 2]
        ELSE [s EXCEPT !.inQuotes = ~s.inQuotes, !.i = s.i + 1]
    ELSE IF char = Comma /\ ~s.inQuotes THEN
        [pushField(s) EXCEPT !.i = s.i + 1]
    ELSE IF (char = LF \/ char = CR) /\ ~s.inQuotes THEN
        [pushRow(pushField(s)) EXCEPT !.i = s.i + 1]
    ELSE [s EXCEPT !.field = s.field \o char, !.i = s.i + 1]

\* One iteration of the for loop, the i += 1 of the loop header included.
ScanStep(text, s) ==
    LET char == CharAt(text, s.i) IN
    IF char = DQuote THEN
        IF s.inQuotes /\ CharAt(text, s.i + 1) = DQuote
        THEN [s EXCEPT !.field = s.field \o DQuote, !.i = s.i + 2]
        ELSE [s EXCEPT !.inQuotes = ~s.inQuotes, !.i = s.i + 1]
    ELSE IF char = Comma /\ ~s.inQuotes THEN
        [pushField(s) EXCEPT !.i = s.i + 1]
    ELSE IF (char = LF \/ char = CR) /\ ~s.inQuotes THEN
        LET skip == IF char = CR /\ CharAt(text, s.i + 1) = LF THEN 2 ELSE 1
        IN  [pushRow(pushField(s)) EXCEPT !.i = s.i + skip]
    ELSE [s EXCEPT !.field = s.field \o char, !.i = s.i + 1]

RECURSIVE ScanAll(_, _)
\* The whole for loop: iterate while i < text.length.
ScanAll(text, s) ==
    IF s.i < Len(text) THEN ScanAll(text, ScanStep(text, s)) ELSE s

\* A variant of the end-of-input flush that pushes the row but not the field.
ScanFlushNoField(s) == pushRow(s)

\* The pushField(); pushRow() after the loop.
ScanFlush(s) == pushRow(pushField(s))

\* rows[k].every((value) => value === '')
AllEmpty(row) == \A k \in 1..Len(row) : row[k] = ""

RECURSIVE DropEveryEmpty(_)
\* A variant of the trim that removes every all-empty row, wherever it is.
DropEveryEmpty(rs) ==
    IF Len(rs) = 0 THEN <<>>
    ELSE (IF AllEmpty(Head(rs)) THEN <<>> ELSE <<Head(rs)>>) \o DropEveryEmpty(Tail(rs))

RECURSIVE DropTrailingEmpty(_)
\* while (rows.length && rows[rows.length - 1].every(...)) rows.pop()
DropTrailingEmpty(rs) ==
    IF Len(rs) > 0 /\ AllEmpty(rs[Len(rs)])
    THEN DropTrailingEmpty(SubSeq(rs, 1, Len(rs) - 1))
    ELSE rs

\* const [headerRow = [], ...dataRows] = rows; return {headers, rows}
ParseResult(rs) ==
    LET kept == DropTrailingEmpty(rs) IN
    IF Len(kept) = 0 THEN [headers |-> <<>>, rows |-> <<>>]
    ELSE [headers |-> Head(kept), rows |-> Tail(kept)]

parseCsv(text) == ParseResult(ScanFlush(ScanAll(text, ScanInit)).rows)

----------------------------------------------------------------------------
(* stringifyCsv                                                             *)

\* row[header] on a record: undefined when the key is absent.
Get(row, key) == IF key \in DOMAIN row THEN row[key] ELSE Undefined

\* /[",\n]/.test(text)
NeedsQuoting(text) ==
    \E k \in 0..(Len(text) - 1) : CharAt(text, k) \in {DQuote, Comma, LF}

RECURSIVE DoubleQuotes(_)
\* text.replace(/"/g, '""')
DoubleQuotes(text) ==
    IF Len(text) = 0 THEN ""
    ELSE (IF Head(text) = DQuote THEN DQuote \o DQuote ELSE Head(text))
         \o DoubleQuotes(Tail(text))

\* A variant of escapeCell that wraps a cell without doubling its quotes.
escapeCellNoDoubling(value) ==
    LET text == IF value = Null \/ value = Undefined THEN "" ELSE value IN
    IF NeedsQuoting(text) THEN DQuote \o text \o DQuote ELSE text

escapeCell(value) ==
    LET text == IF value = Null \/ value = Undefined THEN "" ELSE value IN
    IF NeedsQuoting(text) THEN DQuote \o DoubleQuotes(text) \o DQuote ELSE text

stringifyCsv(hdrs, recs) ==
    LET headerLine == Join([k \in 1..Len(hdrs) |-> escapeCell(hdrs[k])], Comma)
        dataLine(row) ==
            Join([k \in 1..Len(hdrs) |-> escapeCell(Get(row, hdrs[k]))], Comma)
        dataLines == [r \in 1..Len(recs) |-> dataLine(recs[r])]
    IN  Join(<<headerLine>> \o dataLines, LF)

----------------------------------------------------------------------------
(* validateRows                                                             *)

REQUIRED_FIELDS ==
    <<"bill_id", "bill_type", "bill_date", "units_of_measure", "consumption", "cost">>
ALLOWED_TYPES == <<"Power", "Gas", "Water">>
numericFields == <<"bill_id", "consumption", "cost">>

\* White space String.prototype.trim and Number() strip (the characters of
\* it that the model's texts use).
WhiteSpace == {" ", "\t", LF, CR}

RECURSIVE TrimStart(_)
TrimStart(text) ==
    IF Len(text) > 0 /\ Head(text) \in WhiteSpace THEN TrimStart(Tail(text)) ELSE text

RECURSIVE TrimEnd(_)
TrimEnd(text) ==
    IF Len(text) > 0 /\ SubSeq(text, Len(text), Len(text)) \in WhiteSpace
    THEN TrimEnd(SubSeq(text, 1, Len(text) - 1))
    ELSE text

\* String.prototype.trim
Trim(text) == TrimEnd(TrimStart(text))

\* A variant of the blank test that does not trim.
IsBlankNoTrim(value) == value = Undefined \/ value = Null \/ value = ""

\* value === undefined || value === null || String(value).trim() === ''
IsBlank(value) == value = Undefined \/ value = Null \/ Trim(value) = ""

\* JavaScript truthiness of a text, null or undefined.
Truthy(value) == value # Undefined /\ value # Null /\ value # ""

\* Array.prototype.includes
Includes(arr, value) == \E k \in 1..Len(arr) : arr[k] = value

Digits == {"0", "1", "2", "3", "4", "5", "6", "7", "8", "9"}
HexDigits == Digits \cup {"a", "b", "c", "d", "e", "f", "A", "B", "C", "D", "E", "F"}

AllIn(text, chars) == \A k \in 0..(Len(text) - 1) : CharAt(text, k) \in chars

\* 1-based position of the first character of text that is in chars, or 0.
FirstOf(text, chars) ==
    IF \E k \in 1..Len(text) : SubSeq(text, k, k) \in chars
    THEN CHOOSE k \in 1..Len(text) :
            /\ SubSeq(text, k, k) \in chars
            /\ \A j \in 1..(k - 1) : SubSeq(text, j, j) \notin chars
    ELSE 0

DigitValue(c) ==
    CASE c = "0" -> 0 [] c = "1" -> 1 [] c = "2" -> 2 [] c = "3" -> 3 [] c = "4" -> 4
      [] c = "5" -> 5 [] c = "6" -> 6 [] c = "7" -> 7 [] c = "8" -> 8 [] c = "9" -> 9

\* Largest decimal exponent of a finite double (Number.MAX_VALUE is about
\* 1.8e308); a short non-zero mantissa with a larger exponent is Infinity.
MaxDoubleExponent == 308

RECURSIVE DecimalValue(_, _)
\* The value of a run of decimal digits, saturating above MaxDoubleExponent.
DecimalValue(text, acc) ==
    IF Len(text) = 0 THEN acc
    ELSE LET next == acc * 10 + DigitValue(Head(text))
         IN  DecimalValue(Tail(text),
                          IF next > MaxDoubleExponent THEN MaxDoubleExponent + 1 ELSE next)

\* StrUnsignedDecimalLiteral without Infinity: "finite", "infinite" or "nan".
UnsignedDecimalClass(text) ==
    LET ePos == FirstOf(text, {"e", "E"})
        mant == IF ePos = 0 THEN text ELSE Slice(text, 1, ePos - 1)
        expo == IF ePos = 0 THEN "" ELSE Slice(text, ePos + 1, Len(text))
        expNeg == Len(expo) > 0 /\ Head(expo) = "-"
        expDigits == IF Len(expo) > 0 /\ Head(expo) \in {"+", "-"} THEN Tail(expo) ELSE expo
        dot == FirstOf(mant, {"."})
        intPart == IF dot = 0 THEN mant ELSE Slice(mant, 1, dot - 1)
        fracPart == IF dot = 0 THEN "" ELSE Slice(mant, dot + 1, Len(mant))
        mantOk == /\ AllIn(intPart, Digits)
                  /\ AllIn(fracPart, Digits)
                  /\ Len(intPart) + Len(fracPart) > 0
        expOk == ePos = 0 \/ (Len(expDigits) > 0 /\ AllIn(expDigits, Digits))
        zero == AllIn(intPart, {"0"}) /\ AllIn(fracPart, {"0"})
    IN  IF ~(mantOk /\ expOk) THEN "nan"
        ELSE IF ~zero /\ ePos # 0 /\ ~expNeg
                /\ DecimalValue(expDigits, 0) > MaxDoubleExponent
             THEN "infinite"
             ELSE "finite"

\* The class of Number(value) for a text: "finite", "infinite" or "nan"
\* (StringToNumber: white space stripped, empty is 0, optionally signed
\* decimal or Infinity, unsigned 0x / 0o / 0b integers).
NumberClass(value) ==
    LET t == Trim(value)
        signed == Len(t) > 0 /\ Head(t) \in {"+", "-"}
        body == IF signed THEN Tail(t) ELSE t
        prefix == Slice(t, 1, 2)
        rest == Slice(t, 3, Len(t))
    IN  IF t = "" THEN "finite"
        ELSE IF body = "Infinity" THEN "infinite"
        ELSE IF prefix \in {"0x", "0X"}
             THEN IF Len(rest) > 0 /\ AllIn(rest, HexDigits) THEN "finite" ELSE "nan"
        ELSE IF prefix \in {"0o", "0O"}
             THEN IF Len(rest) > 0 /\ AllIn(rest, {"0", "1", "2", "3", "4", "5", "6", "7"})
                  THEN "finite" ELSE "nan"
        ELSE IF prefix \in {"0b", "0B"}
             THEN IF Len(rest) > 0 /\ AllIn(rest, {"0", "1"}) THEN "finite" ELSE "nan"
        ELSE UnsignedDecimalClass(body)

\* Number.isNaN(Number(value))
NumberIsNaN(value) == NumberClass(value) = "nan"

\* An issue {row, message}.  row is a number, or the text '-' for an issue of
\* no record; the model holds it as the text the issue list renders
\* (Row {issue.row}), so that a row number and '-' are values of one kind.
Issue(rowNumber, message) == [row |-> ToString(rowNumber), message |-> message]

RECURSIVE RequiredIssues(_, _, _)
\* REQUIRED_FIELDS.forEach((field) => ...) from the k-th field on.
RequiredIssues(row, rowNumber, k) ==
    IF k > Len(REQUIRED_FIELDS) THEN <<>>
    ELSE (IF IsBlank(Get(row, REQUIRED_FIELDS[k]))
          THEN <<Issue(rowNumber, REQUIRED_FIELDS[k] \o " is required")>>
          ELSE <<>>)
         \o RequiredIssues(row, rowNumber, k + 1)

\* if (row.bill_type && !ALLOWED_TYPES.includes(row.bill_type)) issues.push(...)
EnumIssues(row, rowNumber) ==
    IF Truthy(Get(row, "bill_type")) /\ ~Includes(ALLOWED_TYPES, Get(row, "bill_type"))
    THEN <<Issue(rowNumber, "bill_type must be one of: " \o Join(ALLOWED_TYPES, ", "))>>
    ELSE <<>>

RECURSIVE NumericIssues(_, _, _)
\* numericFields.forEach((field) => ...) from the k-th field on.
NumericIssues(row, rowNumber, k) ==
    IF k > Len(numericFields) THEN <<>>
    ELSE LET value == Get(row, numericFields[k]) IN
         (IF value # Undefined /\ value # Null /\ Trim(value) # ""
             /\ NumberIsNaN(value)
          THEN <<Issue(rowNumber, numericFields[k] \o " must be numeric")>>
          ELSE <<>>)
         \o NumericIssues(row, rowNumber, k + 1)

\* A variant of the callback that applies the numeric rule first.
RowIssuesNumericFirst(row, idx) ==
    LET rowNumber == idx + 2
    IN  NumericIssues(row, rowNumber, 1)
            \o RequiredIssues(row, rowNumber, 1)
            \o EnumIssues(row, rowNumber)

\* The issues validateRows pushes for one record at 0-based index idx.
RowIssues(row, idx) ==
    LET rowNumber == idx + 2
    IN  RequiredIssues(row, rowNumber, 1)
            \o EnumIssues(row, rowNumber)
            \o NumericIssues(row, rowNumber, 1)

RECURSIVE ValidateFrom(_, _)
\* rows.forEach((row, idx) => ...) from 0-based index idx on.
ValidateFrom(recs, idx) ==
    IF idx >= Len(recs) THEN <<>>
    ELSE RowIssues(recs[idx + 1], idx) \o ValidateFrom(recs, idx + 1)

validateRows(recs) == ValidateFrom(recs, 0)

----------------------------------------------------------------------------
(* The codec harness: inputs drawn in CsvInit, the codec applied by actions *)

MaxTextLen == 4     \* longest raw text handed to parseCsv
MaxLineLen == 2     \* longest line of a line-ending table
MaxLines == 2       \* most lines of a line-ending table
MaxRecs == 1        \* most records of a table handed to stringifyCsv

Alphabet == {"a", Comma, DQuote, LF, CR}
LineAlphabet == {"a", Comma, DQuote}

RECURSIVE Texts(_, _)
\* All texts over an alphabet of at most n characters.
Texts(alpha, n) ==
    IF n = 0 THEN {""}
    ELSE LET shorter == Texts(alpha, n - 1)
         IN  shorter \cup {t \o c : t \in shorter, c \in alpha}

RECURSIVE CountChar(_, _)
CountChar(text, c) ==
    IF Len(text) = 0 THEN 0
    ELSE (IF Head(text) = c THEN 1 ELSE 0) + CountChar(Tail(text), c)

\* Lines without line-ending characters whose quotes are balanced, so that
\* the end of a line is never inside a quoted field.
BalancedLines == {t \in Texts(LineAlphabet, MaxLineLen) : CountChar(t, DQuote) % 2 = 0}

SeqsUpTo(S, lo, hi) == UNION {[1..n -> S] : n \in lo..hi}

Eols == {LF, CR \o LF, CR}

\* The lines of a table, each terminated (or, without trail, separated) by eol.
EncodeLines(lines, eol, trail) == Join(lines, eol) \o (IF trail THEN eol ELSE "")

HeaderLists == {<<>>, <<"h">>, <<"h", "k">>, <<"h", "h">>, <<"a,b", "k">>}
CellSamples == {"", "a", Comma, DQuote, LF, CR, "a,b\"c\nd"}
CellValues == CellSamples \cup {Null, Undefined}

HeaderSet(hdrs) == {hdrs[k] : k \in 1..Len(hdrs)}

NoTable == [kind |-> "none"]
NoOut == [headers |-> <<>>, rows |-> <<>>]

\* The codec harness at rest, for the specifications of the other components.
CsvIdle ==
    /\ csvIn = NoTable
    /\ csvText = ""
    /\ scan = ScanInit
    /\ csvPhase = "idle"
    /\ csvOut = NoOut

\* The DataEntry component not mounted.
GridIdle ==
    /\ headers = <<>>
    /\ rows = <<>>
    /\ issues = <<>>
    /\ uploadState = [status |-> "idle"]
    /\ fileName = ""
    /\ reads = {}
    /\ uploads = {}
    /\ ops = 0

\* sortConfig === null, read through current?.key and sortConfig?.direction.
NullSortConfig == [key |-> Null, direction |-> Null]

\* No fetch of the Tables component under way.
FetchIdle ==
    /\ utility = "Power"
    /\ pageSize = 20
    /\ totalCount = 0
    /\ loading = FALSE
    /\ fetches = {}
    /\ tableOps = 0

\* No Tables component mounted.
TablesIdle ==
    /\ tablesVersion = "none"
    /\ sortConfig = NullSortConfig
    /\ page = 1
    /\ totalPages = 1
    /\ tableRows = <<>>
    /\ FetchIdle

\* The validation harness at rest.
ValIdle ==
    /\ vrows = <<>>
    /\ vissues = <<>>
    /\ vcursor = 0
    /\ vpokes = 0

CsvInit ==
    /\ \/ \E t \in Texts(Alphabet, MaxTextLen) :
            /\ csvIn = [kind |-> "raw"]
            /\ csvText = t
            /\ csvPhase = "scan"
       \/ \E ls \in SeqsUpTo(BalancedLines, 1, MaxLines), e \in Eols, tr \in BOOLEAN :
            /\ csvIn = [kind |-> "lines", lines |-> ls, eol |-> e, trail |-> tr]
            /\ csvText = EncodeLines(ls, e, tr)
            /\ csvPhase = "scan"
       \/ \E H \in HeaderLists :
          \E R \in SeqsUpTo([HeaderSet(H) -> CellValues], 0, MaxRecs) :
            /\ csvIn = [kind |-> "table", H |-> H, R |-> R]
            /\ csvText = ""
            /\ csvPhase = "table"
    /\ scan = ScanInit
    /\ csvOut = NoOut

\* stringifyCsv(headers, rows) applied to the drawn table.
CsvStringify ==
    /\ csvPhase = "table"
    /\ csvText' = stringifyCsv(csvIn.H, csvIn.R)
    /\ csvPhase' = "scan"
    /\ UNCHANGED <<csvIn, scan, csvOut>>
    /\ UNCHANGED csvOthers

\* One iteration of parseCsv's for loop on the raw text.
CsvScanChar ==
    /\ csvPhase = "scan"
    /\ csvIn.kind = "raw"
    /\ scan.i < Len(csvText)
    /\ scan' = ScanStep(csvText, scan)
    /\ UNCHANGED <<csvIn, csvText, csvPhase, csvOut>>
    /\ UNCHANGED csvOthers

\* Loop exit of parseCsv: the final flush, the trailing-row trim, the return.
CsvReturn ==
    /\ csvPhase = "scan"
    /\ csvIn.kind = "raw"
    /\ scan.i >= Len(csvText)
    /\ scan' = ScanFlush(scan)
    /\ csvOut' = ParseResult(scan'.rows)
    /\ csvPhase' = "done"
    /\ UNCHANGED <<csvIn, csvText>>
    /\ UNCHANGED csvOthers

\* parseCsv(text) called on an encoded table or a stringified table.
CsvParse ==
    /\ csvPhase = "scan"
    /\ csvIn.kind \in {"lines", "table"}
    /\ csvOut' = parseCsv(csvText)
    /\ csvPhase' = "done"
    /\ UNCHANGED <<csvIn, csvText, scan>>
    /\ UNCHANGED csvOthers

CsvNext == CsvStringify \/ CsvScanChar \/ CsvReturn \/ CsvParse

\* Only the codec is in use.
CsvStart == CsvInit /\ ValIdle /\ GridIdle /\ TablesIdle

CsvSpec == CsvStart /\ [][CsvNext]_vars

----------------------------------------------------------------------------
(* The validation harness: a batch is drawn, validateRows is applied        *)

MaxValRows == 2     \* most records of a batch handed to validateRows
MaxPokes == 2       \* most cells of a batch that differ from a valid record

\* A record that satisfies every rule.
ValidRecord ==
    [f \in {REQUIRED_FIELDS[k] : k \in 1..Len(REQUIRED_FIELDS)} |->
        CASE f = "bill_id" -> "1"
          [] f = "bill_type" -> "Power"
          [] f = "bill_date" -> "2024-01-01"
          [] f = "units_of_measure" -> "kWh"
          [] f = "consumption" -> "100"
          [] f = "cost" -> "25.50"]

\* The values a cell of each field is changed to.
ValSamples(f) ==
    {"", " ", Null, Undefined}
        \cup (IF f = "bill_type" THEN {"Solar", "Gas"} ELSE {})
        \cup (IF f \in {"bill_id", "consumption", "cost"} THEN {"12.5x", "Infinity"} ELSE {})

ValInit ==
    /\ \E n \in 1..MaxValRows : vrows = [k \in 1..n |-> ValidRecord]
    /\ vissues = <<>>
    /\ vcursor = 0
    /\ vpokes = 0

\* One cell of the batch, beyond the cells changed so far in row-major
\* order, takes another value and validateRows(rows) is applied to the batch.
ValPoke ==
    /\ vpokes < MaxPokes
    /\ \E k \in 1..Len(vrows), j \in 1..Len(REQUIRED_FIELDS) :
       \E v \in ValSamples(REQUIRED_FIELDS[j]) :
         /\ (k - 1) * Len(REQUIRED_FIELDS) + j > vcursor
         /\ vcursor' = (k - 1) * Len(REQUIRED_FIELDS) + j
         /\ vrows' = [vrows EXCEPT ![k][REQUIRED_FIELDS[j]] = v]
    /\ vpokes' = vpokes + 1
    /\ vissues' = validateRows(vrows')
    /\ UNCHANGED valOthers

ValNext == ValPoke

\* Only validateRows is in use.
ValStart == ValInit /\ CsvIdle /\ GridIdle /\ TablesIdle

ValSpec == ValStart /\ [][ValNext]_vars

----------------------------------------------------------------------------
(* The DataEntry component                                                  *)

MaxOps == 4         \* most user operations (select, edit, add, remove, submit)

\* The files a user selects: name and content.
Files ==
    { [name |-> "bills.csv",
       content |-> "bill_id,bill_type,bill_date,units_of_measure,consumption,cost\n"
                   \o "1,Power,2024-01-01,kWh,100,25.50\n"
                   \o "2,Solar,2024-02-01,kWh,abc,30"],
      [name |-> "meters.csv",
       content |-> "bill_id,cost\r\n7\r\n ,\r\n8,9,10\r\n"],
      [name |-> "empty.csv", content |-> ""] }

\* Files that pass validation as they are: one with a quoted cell, one whose
\* header row names cost twice.
ValidFiles ==
    { [name |-> "water.csv",
       content |-> "bill_id,bill_type,bill_date,units_of_measure,consumption,cost\n"
                   \o "4,Water,2024-03-01,\"gal, US\",900,12\n"
                   \o "5,Water,2024-04-01,gal,950,13\n"],
      [name |-> "gas.csv",
       content |-> "bill_id,bill_type,bill_date,units_of_measure,consumption,cost,cost\n"
                   \o "3,Gas,2024-03-01,therms,40,10,20"] }

\* The cells a user edits and the values typed into them.
EditFields == {"bill_type", "consumption"}
EditValues == {"Power", "120"}

NoUpload == [status |-> "null"]

RECURSIVE BuildRecordOmitMissing(_, _, _)
\* A variant of the record construction that leaves out the headers the row
\* has no cell for.
BuildRecordOmitMissing(hdrs, row, k) ==
    IF k > Len(hdrs) \/ k > Len(row) THEN <<>>
    ELSE LET rest == BuildRecordOmitMissing(hdrs, row, k + 1)
         IN  [h \in {hdrs[k]} \cup DOMAIN rest |->
                IF h \in DOMAIN rest THEN rest[h] ELSE row[k]]

RECURSIVE BuildRecord(_, _, _)
\* effectiveHeaders.forEach((header, index) => record[header] = row[index] ?? '')
\* from position k on: a later cell under a repeated header replaces the
\* earlier one.
BuildRecord(hdrs, row, k) ==
    IF k > Len(hdrs) THEN <<>>
    ELSE LET cell == IF k <= Len(row) THEN row[k] ELSE ""
             rest == BuildRecord(hdrs, row, k + 1)
         IN  [h \in {hdrs[k]} \cup DOMAIN rest |->
                IF h \in DOMAIN rest THEN rest[h] ELSE cell]

\* row.some((cell) => String(cell).trim() !== '')
HasContent(row) == \E k \in 1..Len(row) : Trim(row[k]) # ""

RECURSIVE KeepContent(_)
\* dataRows.filter((row) => row.some(...))
KeepContent(arr) ==
    IF Len(arr) = 0 THEN <<>>
    ELSE (IF HasContent(Head(arr)) THEN <<Head(arr)>> ELSE <<>>) \o KeepContent(Tail(arr))

\* dataRows.filter(...).map(...) of reader.onload
SanitizedRows(hdrs, dataRows) ==
    LET kept == KeepContent(dataRows)
    IN  [k \in 1..Len(kept) |-> BuildRecord(hdrs, kept[k], 1)]

\* rows.length > 0 && issues.length === 0
canSubmit == Len(rows) > 0 /\ Len(issues) = 0

ReadFailureIssue == [row |-> "-", message |-> "Unable to read file"]

GridInit ==
    /\ headers = REQUIRED_FIELDS
    /\ rows = <<>>
    /\ issues = <<>>
    /\ uploadState = NoUpload
    /\ fileName = "preview.csv"
    /\ reads = {}
    /\ uploads = {}
    /\ ops = 0

\* handleFileSelect: the file's name is stored and an asynchronous read
\* starts whose onload closure holds this render's headers.
handleFileSelect(file) ==
    /\ ops < MaxOps
    /\ ops' = ops + 1
    /\ fileName' = file.name
    /\ reads' = reads \cup {[file |-> file, headers |-> headers]}
    /\ UNCHANGED <<headers, rows, issues, uploadState, uploads>>
    /\ UNCHANGED gridOthers

\* parseCsv(reader.result || '') for each file, evaluated once per file.
ParsedFiles == [file \in Files \cup ValidFiles |-> parseCsv(file.content)]

\* reader.onload of a read in progress: effectiveHeaders, sanitizedRows and
\* validateRows(sanitizedRows) become headers, rows and issues.
ReaderOnLoad(read) ==
    /\ read \in reads
    /\ reads' = reads \ {read}
    /\ headers' = IF Len(ParsedFiles[read.file].headers) > 0
                  THEN ParsedFiles[read.file].headers
                  ELSE read.headers
    /\ rows' = SanitizedRows(headers', ParsedFiles[read.file].rows)
    /\ issues' = validateRows(rows')
    /\ UNCHANGED <<uploadState, fileName, uploads, ops>>
    /\ UNCHANGED gridOthers

\* A variant of reader.onerror that reports the failure and keeps the rows.
ReaderOnErrorKeepsRows(read) ==
    /\ read \in reads
    /\ reads' = reads \ {read}
    /\ issues' = <<ReadFailureIssue>>
    /\ UNCHANGED <<headers, rows, uploadState, fileName, uploads, ops>>
    /\ UNCHANGED gridOthers

\* reader.onerror of a read in progress.
ReaderOnError(read) ==
    /\ read \in reads
    /\ reads' = reads \ {read}
    /\ rows' = <<>>
    /\ issues' = <<ReadFailureIssue>>
    /\ UNCHANGED <<headers, uploadState, fileName, uploads, ops>>
    /\ UNCHANGED gridOthers

\* A variant of the cell replacement that does not compare the index.
WithCellEveryRow(prev, rowIdx, field, value) ==
    [k \in 1..Len(prev) |->
        [h \in DOMAIN prev[k] \cup {field} |->
            IF h = field THEN value ELSE prev[k][h]]]

\* prev.map((row, idx) => (idx === rowIdx ? { ...row, [field]: value } : row))
WithCell(prev, rowIdx, field, value) ==
    [k \in 1..Len(prev) |->
        IF k - 1 = rowIdx
        THEN [h \in DOMAIN prev[k] \cup {field} |->
                IF h = field THEN value ELSE prev[k][h]]
        ELSE prev[k]]

\* A variant of the edit that does not validate the new rows.
handleCellChangeStale(rowIdx, field, value) ==
    /\ ops < MaxOps
    /\ ops' = ops + 1
    /\ rows' = WithCell(rows, rowIdx, field, value)
    /\ UNCHANGED <<headers, issues, uploadState, fileName, reads, uploads>>
    /\ UNCHANGED gridOthers

handleCellChange(rowIdx, field, value) ==
    /\ ops < MaxOps
    /\ ops' = ops + 1
    /\ rows' = WithCell(rows, rowIdx, field, value)
    /\ issues' = validateRows(rows')
    /\ UNCHANGED <<headers, uploadState, fileName, reads, uploads>>
    /\ UNCHANGED gridOthers

\* headers.reduce((acc, field) => ({ ...acc, [field]: '' }), {})
EmptyRecord(hdrs) == [h \in HeaderSet(hdrs) |-> ""]

handleAddRow ==
    /\ ops < MaxOps
    /\ ops' = ops + 1
    /\ rows' = Append(rows, EmptyRecord(headers))
    /\ issues' = validateRows(rows')
    /\ UNCHANGED <<headers, uploadState, fileName, reads, uploads>>
    /\ UNCHANGED gridOthers

\* A variant of the filter that also drops the records after rowIdx.
WithoutRowTruncating(prev, rowIdx) ==
    [k \in 1..(IF rowIdx < Len(prev) THEN rowIdx ELSE Len(prev)) |-> prev[k]]

\* prev.filter((_, idx) => idx !== rowIdx)
WithoutRow(prev, rowIdx) ==
    LET keep == {k \in 1..Len(prev) : k - 1 # rowIdx}
        nth(n) == CHOOSE k \in keep : Cardinality({j \in keep : j < k}) = n - 1
    IN  [n \in 1..Cardinality(keep) |-> prev[nth(n)]]

\* A variant of the removal that leaves the issues as they were.
handleRemoveRowStale(rowIdx) ==
    /\ ops < MaxOps
    /\ ops' = ops + 1
    /\ rows' = WithoutRow(rows, rowIdx)
    /\ UNCHANGED <<headers, issues, uploadState, fileName, reads, uploads>>
    /\ UNCHANGED gridOthers

handleRemoveRow(rowIdx) ==
    /\ ops < MaxOps
    /\ ops' = ops + 1
    /\ rows' = WithoutRow(rows, rowIdx)
    /\ issues' = validateRows(rows')
    /\ UNCHANGED <<headers, uploadState, fileName, reads, uploads>>
    /\ UNCHANGED gridOthers

\* A variant of handleSubmit without the return on issues.
handleSubmitUnguarded ==
    /\ ops < MaxOps
    /\ ops' = ops + 1
    /\ issues' = validateRows(rows)
    /\ uploadState' = [status |-> "uploading"]
    /\ uploads' = uploads \cup
         {[click |-> ops',
           fileName |-> IF fileName # "" THEN fileName ELSE "preview.csv",
           csv |-> stringifyCsv(headers, rows)]}
    /\ UNCHANGED <<headers, rows, fileName, reads>>
    /\ UNCHANGED gridOthers

\* handleSubmit up to its await: the final validation and, when it finds no
\* issue, the upload request.  The handler is modelled whether or not the
\* button that calls it is enabled.  A request is told apart from the others
\* in flight by the click that sent it.
handleSubmit ==
    /\ ops < MaxOps
    /\ ops' = ops + 1
    /\ issues' = validateRows(rows)
    /\ IF Len(issues') > 0
       THEN UNCHANGED <<uploadState, uploads>>
       ELSE /\ uploadState' = [status |-> "uploading"]
            /\ uploads' = uploads \cup
                 {[click |-> ops',
                   fileName |-> IF fileName # "" THEN fileName ELSE "preview.csv",
                   csv |-> stringifyCsv(headers, rows)]}
    /\ UNCHANGED <<headers, rows, fileName, reads>>
    /\ UNCHANGED gridOthers

\* The response of an upload arrives with response.ok.
UploadSucceeds(request) ==
    /\ request \in uploads
    /\ uploads' = uploads \ {request}
    /\ uploadState' = [status |-> "success"]
    /\ UNCHANGED <<headers, rows, issues, fileName, reads, ops>>
    /\ UNCHANGED gridOthers

\* error.message of a failed upload: of a response that is not ok and has no
\* data.error, and of a rejected fetch.
FailureMessages == {"Upload failed", "Failed to fetch"}

\* A variant of the catch block that also clears the grid.
UploadFailsClearing(request, message) ==
    /\ request \in uploads
    /\ uploads' = uploads \ {request}
    /\ uploadState' = [status |-> "error", message |-> message]
    /\ rows' = <<>>
    /\ issues' = <<>>
    /\ UNCHANGED <<headers, fileName, reads, ops>>
    /\ UNCHANGED gridOthers

\* fetch rejects or the response is not ok: the catch block.
UploadFails(request, message) ==
    /\ request \in uploads
    /\ uploads' = uploads \ {request}
    /\ uploadState' = [status |-> "error", message |-> message]
    /\ UNCHANGED <<headers, rows, issues, fileName, reads, ops>>
    /\ UNCHANGED gridOthers

\* The row indices a handler is called with: the rendered rows and one index
\* past them.
RowIndices == 0..Len(rows)

Next ==
    \/ \E file \in Files : handleFileSelect(file)
    \/ \E read \in reads : ReaderOnLoad(read)
    \/ \E read \in reads : ReaderOnError(read)
    \/ \E rowIdx \in RowIndices, field \in EditFields \cap HeaderSet(headers),
          value \in EditValues : handleCellChange(rowIdx, field, value)
    \/ handleAddRow
    \/ \E rowIdx \in RowIndices : handleRemoveRow(rowIdx)
    \/ handleSubmit
    \/ \E request \in uploads : UploadSucceeds(request)
    \/ \E request \in uploads, message \in FailureMessages : UploadFails(request, message)

\* The DataEntry component as mounted.
Init == GridInit /\ CsvIdle /\ ValIdle /\ TablesIdle

Spec == Init /\ [][Next]_vars

\* The DataEntry component used to load files and submit them as loaded.
LoadSubmitNext ==
    \/ \E file \in ValidFiles : handleFileSelect(file)
    \/ \E read \in reads : ReaderOnLoad(read)
    \/ handleSubmit
    \/ \E request \in uploads : UploadSucceeds(request)

LoadSubmitSpec == Init /\ [][LoadSubmitNext]_vars

----------------------------------------------------------------------------
(* Properties of the codec                                                  *)

CsvDone(kind) == csvPhase = "done" /\ csvIn.kind = kind

\* Every cell of the drawn table is a text (neither null nor undefined).
TextCells(R) ==
    \A r \in 1..Len(R) : \A h \in DOMAIN R[r] : R[r][h] \notin {Null, Undefined}

\* The last record, when there is one, has a cell that is not ''.
LastRecordNotEmpty(R) ==
    Len(R) = 0 \/ \E h \in DOMAIN R[Len(R)] : R[Len(R)][h] # ""

\* The parsed rows equal the records cell for cell, in header order.
RowsEqualRecords(out, H, R) ==
    /\ out.headers = H
    /\ Len(out.rows) = Len(R)
    /\ \A r \in 1..Len(R) :
         /\ Len(out.rows[r]) = Len(H)
         /\ \A k \in 1..Len(H) : out.rows[r][k] = R[r][H[k]]

\* C1: round trip. For every header list H and every list R of records keyed
\* by H whose cells are texts over an alphabet with comma, double quote, LF
\* and CR, and whose last record is not entirely empty,
\* parseCsv(stringifyCsv(H, R)) returns headers H and rows equal to R.
C1_RoundTrip ==
    (CsvDone("table") /\ TextCells(csvIn.R) /\ LastRecordNotEmpty(csvIn.R))
        => RowsEqualRecords(csvOut, csvIn.H, csvIn.R)

\* C2: line-ending equivalence. The texts that terminate the same lines with
\* LF, with CRLF and with bare CR parse to identical headers and rows, and no
\* line ending yields an extra row.
C2_LineEndingEquivalence ==
    CsvDone("lines") =>
        /\ \A e \in Eols :
             parseCsv(EncodeLines(csvIn.lines, e, csvIn.trail)) = csvOut
        /\ Len(csvOut.rows) < Len(csvIn.lines)

C2_Witness ==
    /\ CsvDone("lines")
    /\ csvIn.eol = CR \o LF
    /\ csvIn.trail
    /\ Len(csvIn.lines) = 2
    /\ Len(csvOut.rows) = 1

\* C3: parseCsv is total. On every text, until the call has returned a next
\* step is always possible (nothing raises), each loop iteration moves the
\* position forward without passing the end of the text (so the end of input
\* is reached), and the loop exit appends the accumulated row, with the
\* accumulated field as its last field, to the scanned rows and returns.
C3_ParseTotal ==
    /\ [][(csvIn.kind = "raw" /\ csvPhase = "scan") =>
            IF scan.i < Len(csvText)
            THEN /\ csvPhase' = "scan"
                 /\ scan'.i > scan.i
                 /\ scan'.i <= Len(csvText)
            ELSE /\ csvPhase' = "done"
                 /\ scan'.rows = Append(scan.rows, Append(scan.row, scan.field))
                 /\ csvOut' = ParseResult(scan'.rows)]_vars
    /\ [](csvIn.kind = "raw" =>
            (csvPhase = "done" \/ ENABLED CsvScanChar \/ ENABLED CsvReturn))

\* A text that ends inside an opened quote has been parsed to a header row.
C3_Witness ==
    /\ CsvDone("raw")
    /\ scan.inQuotes
    /\ Len(csvText) = MaxTextLen
    /\ Len(csvOut.headers) > 0

RECURSIVE Undouble(_)
\* The text a quoted field's interior stands for: each pair of quotes is one
\* quote; a lone quote has no reading.
Undouble(x) ==
    IF Len(x) = 0 THEN ""
    ELSE IF Head(x) = DQuote
         THEN IF Len(x) >= 2 /\ Head(Tail(x)) = DQuote
              THEN DQuote \o Undouble(Tail(Tail(x)))
              ELSE Undefined
         ELSE Head(x) \o Undouble(Tail(x))

IsQuoteWrapped(e, t) ==
    /\ Len(e) >= 2
    /\ Head(e) = DQuote
    /\ SubSeq(e, Len(e), Len(e)) = DQuote
    /\ Undouble(SubSeq(e, 2, Len(e) - 1)) = t

HasSpecialChar(t) ==
    CountChar(t, Comma) + CountChar(t, DQuote) + CountChar(t, LF) > 0

\* The values stringifyCsv renders: the headers and every record's cells.
TableValues(H, R) ==
    HeaderSet(H) \cup {Get(R[r], h) : r \in 1..Len(R), h \in HeaderSet(H)}

\* C4: stringifyCsv emits a cell wrapped in double quotes with every embedded
\* quote doubled if and only if its text contains a comma, a double quote or
\* a newline (LF); every other cell, null and undefined being the empty text,
\* is emitted unchanged; the cells are joined by commas and the lines by LF.
C4_QuotingRule ==
    (csvIn.kind = "table" /\ csvPhase \in {"scan", "done"}) =>
        /\ \A v \in TableValues(csvIn.H, csvIn.R) :
             LET t == IF v \in {Null, Undefined} THEN "" ELSE v
                 e == escapeCell(v)
             IN  IF HasSpecialChar(t) THEN IsQuoteWrapped(e, t)
                 ELSE e = t /\ (Len(t) > 0 => Head(e) # DQuote)
        /\ csvText =
             Join([l \in 1..(Len(csvIn.R) + 1) |->
                     Join([k \in 1..Len(csvIn.H) |->
                             escapeCell(IF l = 1 THEN csvIn.H[k]
                                        ELSE Get(csvIn.R[l - 1], csvIn.H[k]))],
                          Comma)],
                  LF)

\* The field a,b"c<LF>d is emitted as "a,b""c<LF>d" and parses back unchanged.
C4_Witness ==
    /\ CsvDone("table")
    /\ csvIn.H = <<"h">>
    /\ Len(csvIn.R) = 1
    /\ csvIn.R[1]["h"] = "a,b\"c\nd"
    /\ csvText = "h\n\"a,b\"\"c\nd\""
    /\ csvOut.rows = <<<<"a,b\"c\nd">>>>

\* The index of the last scanned row that has a field other than '', or 0.
LastRetained(rs) ==
    IF \E k \in 1..Len(rs) : \E f \in 1..Len(rs[k]) : rs[k][f] # ""
    THEN CHOOSE k \in 1..Len(rs) :
            /\ \E f \in 1..Len(rs[k]) : rs[k][f] # ""
            /\ \A j \in (k + 1)..Len(rs) : \A f \in 1..Len(rs[j]) : rs[j][f] = ""
    ELSE 0

\* C19: parseCsv post-processing. Of the scanned rows, the rows after the
\* last one that has a non-empty field are dropped and no other row is (an
\* all-empty row that a non-empty row follows is retained); the first
\* retained row is headers and the others, in order, are rows; with no row
\* retained, headers and rows are both empty.
C19_TrailingRowsDropped ==
    CsvDone("raw") =>
        csvOut = IF LastRetained(scan.rows) = 0
                 THEN [headers |-> <<>>, rows |-> <<>>]
                 ELSE [headers |-> scan.rows[1],
                       rows |-> [k \in 1..(LastRetained(scan.rows) - 1) |-> scan.rows[k + 1]]]

\* The text <LF>a<LF><LF>: the scanned rows are [''], ['a'], [''], ['']; the
\* last two are dropped, the first is retained as the header row.
C19_Witness ==
    /\ CsvDone("raw")
    /\ csvText = "\na\n\n"
    /\ scan.rows = << <<"">>, <<"a">>, <<"">>, <<"">> >>
    /\ csvOut = [headers |-> <<"">>, rows |-> << <<"a">> >>]

----------------------------------------------------------------------------
(* Properties of validateRows                                               *)

\* How many of the issues are equal to the given one.
CountIssue(list, issue) == Cardinality({k \in 1..Len(list) : list[k] = issue})

\* Undefined, null, empty or made of white space only.
AbsentValue(v) == v \in {Undefined, Null} \/ AllIn(v, WhiteSpace)

EnumMessage == "bill_type must be one of: Power, Gas, Water"

\* C5: required-field coverage. For every record at index i and each of the
\* six required fields, validateRows emits exactly one issue
\* {row: i+2, message: '<field> is required'} when the value is undefined,
\* null, empty or white space only, and no such issue otherwise.
C5_RequiredCoverage ==
    Len(vrows) > 0 =>
        \A k \in 1..Len(vrows) :
            \A f \in {"bill_id", "bill_type", "bill_date",
                      "units_of_measure", "consumption", "cost"} :
                CountIssue(vissues, [row |-> ToString((k - 1) + 2), message |-> f \o " is required"])
                    = IF AbsentValue(Get(vrows[k], f)) THEN 1 ELSE 0

\* The second record's cost is white space only and its bill_date is absent.
C5_Witness ==
    /\ vpokes = 2
    /\ Len(vrows) = 2
    /\ vrows[2]["cost"] = " "
    /\ vrows[2]["bill_date"] = Undefined
    /\ vissues = <<[row |-> "3", message |-> "bill_date is required"],
                   [row |-> "3", message |-> "cost is required"]>>

\* C6: enum rule without double-reporting. validateRows emits the enum issue
\* for a record if and only if its bill_type is present (not undefined, not
\* null, not blank after trimming) and is not one of Power, Gas, Water.
C6_EnumNoDoubleReport ==
    Len(vrows) > 0 =>
        \A k \in 1..Len(vrows) :
            LET v == Get(vrows[k], "bill_type") IN
            CountIssue(vissues, [row |-> ToString((k - 1) + 2), message |-> EnumMessage])
                = IF ~AbsentValue(v) /\ v \notin {"Power", "Gas", "Water"} THEN 1 ELSE 0

\* C7: numeric rule. For each of bill_id, consumption and cost, validateRows
\* emits '<field> must be numeric' for a record if and only if the value is
\* present, non-blank and does not parse as a finite number.
C7_NumericRule ==
    Len(vrows) > 0 =>
        \A k \in 1..Len(vrows) :
            \A f \in {"bill_id", "consumption", "cost"} :
                LET v == Get(vrows[k], f) IN
                CountIssue(vissues, [row |-> ToString((k - 1) + 2), message |-> f \o " must be numeric"])
                    = IF ~AbsentValue(v) /\ NumberClass(v) # "finite" THEN 1 ELSE 0

\* The place of an issue's message in the order of the rules: the required
\* rule over the six fields, the enum rule, the numeric rule over its three
\* fields; 0 for any other message.
MessageRank(message) ==
    CASE message = "bill_id is required" -> 1
      [] message = "bill_type is required" -> 2
      [] message = "bill_date is required" -> 3
      [] message = "units_of_measure is required" -> 4
      [] message = "consumption is required" -> 5
      [] message = "cost is required" -> 6
      [] message = EnumMessage -> 7
      [] message = "bill_id must be numeric" -> 8
      [] message = "consumption must be numeric" -> 9
      [] message = "cost must be numeric" -> 10
      [] OTHER -> 0

\* The 0-based index of the record an issue's row stands for, or -1.
RecordIndexOf(issue) ==
    IF \E i \in 0..(Len(vrows) - 1) : issue.row = ToString(i + 2)
    THEN CHOOSE i \in 0..(Len(vrows) - 1) : issue.row = ToString(i + 2)
    ELSE -1

\* C20: issue ordering. The issues validateRows returns are grouped by
\* record in ascending record index and, within a record, follow the order
\* required (bill_id, bill_type, bill_date, units_of_measure, consumption,
\* cost), enum, numeric (bill_id, consumption, cost); every issue carries
\* the row index+2 of a record of the batch and one of these messages.
C20_IssueOrdering ==
    Len(vrows) > 0 =>
        /\ \A p \in 1..Len(vissues) :
             /\ RecordIndexOf(vissues[p]) >= 0
             /\ MessageRank(vissues[p].message) > 0
        /\ \A p, q \in 1..Len(vissues) :
             p < q =>
                \/ RecordIndexOf(vissues[p]) < RecordIndexOf(vissues[q])
                \/ /\ RecordIndexOf(vissues[p]) = RecordIndexOf(vissues[q])
                   /\ MessageRank(vissues[p].message) < MessageRank(vissues[q].message)

\* One record whose bill_type is a blank and whose cost is not a number: the
\* required issue, the enum issue and the numeric issue, in that order.
C20_Witness ==
    /\ Len(vrows) = 1
    /\ vrows[1]["bill_type"] = " "
    /\ vrows[1]["cost"] = "12.5x"
    /\ vissues = <<[row |-> "2", message |-> "bill_type is required"],
                   [row |-> "2", message |-> EnumMessage],
                   [row |-> "2", message |-> "cost must be numeric"]>>

----------------------------------------------------------------------------
(* Properties of the DataEntry grid                                         *)

\* A step of a successful Load, EditCell, AddRow, RemoveRow or Submit.
GridOperation ==
    \/ \E read \in reads : ReaderOnLoad(read)
    \/ \E rowIdx \in RowIndices, field \in EditFields, value \in EditValues :
          handleCellChange(rowIdx, field, value)
    \/ handleAddRow
    \/ \E rowIdx \in RowIndices : handleRemoveRow(rowIdx)
    \/ handleSubmit

\* C8: issues are derived state. Every successful Load, EditCell, AddRow,
\* RemoveRow and Submit leaves issues equal to validateRows of the rows it
\* leaves; AddRow appends a record with every header set to ''; and issues
\* change in no other step than these and a failed read.
C8_IssuesDerived ==
    /\ [][GridOperation => issues' = validateRows(rows')]_vars
    /\ [][handleAddRow =>
            /\ Len(rows') = Len(rows) + 1
            /\ SubSeq(rows', 1, Len(rows)) = rows
            /\ DOMAIN rows'[Len(rows')] = HeaderSet(headers)
            /\ \A h \in HeaderSet(headers) : rows'[Len(rows')][h] = ""]_vars
    /\ [][issues' # issues =>
            (GridOperation \/ \E read \in reads : ReaderOnError(read))]_vars

\* An empty row was added to the loaded bills: its six required fields are
\* reported along with the two issues of the file's second record.
C8_Witness ==
    /\ Len(rows) = 3
    /\ rows[3] = [h \in HeaderSet(headers) |-> ""]
    /\ Len(issues) = 8
    /\ issues[8] = [row |-> "4", message |-> "cost is required"]

\* C9: in every reachable state, CanSubmit is true if and only if rows is
\* non-empty and validateRows(rows) is empty.
C9_CanSubmitIffValid ==
    canSubmit <=> (Len(rows) > 0 /\ Len(validateRows(rows)) = 0)

\* The loaded bills with the invalid second record removed: one record is
\* left, it passes validation and CanSubmit is true.
C9_Witness ==
    /\ canSubmit
    /\ Len(rows) = 1
    /\ ops = MaxOps
    /\ reads = {}

\* C10: EditCell(rowIndex, field, value) changes only the value of field in
\* the record at rowIndex: the other fields of that record, every other
\* record, the number and order of the rows and the headers stay as they
\* were; with rowIndex out of range no record changes.
C10_EditCellFrame ==
    [][\A rowIdx \in RowIndices, field \in EditFields, value \in EditValues :
        handleCellChange(rowIdx, field, value) =>
            /\ headers' = headers
            /\ Len(rows') = Len(rows)
            /\ \A k \in 1..Len(rows) : k - 1 # rowIdx => rows'[k] = rows[k]
            /\ rowIdx < Len(rows) =>
                 /\ DOMAIN rows'[rowIdx + 1] = DOMAIN rows[rowIdx + 1] \cup {field}
                 /\ rows'[rowIdx + 1][field] = value
                 /\ \A h \in DOMAIN rows[rowIdx + 1] \ {field} :
                      rows'[rowIdx + 1][h] = rows[rowIdx + 1][h]
            /\ rowIdx >= Len(rows) => rows' = rows]_vars

\* The loaded bills after EditCell(1, 'bill_type', 'Power') and
\* EditCell(1, 'consumption', '120'): the first record is as loaded, the
\* second differs in those two cells only, and no issue is left.
C10_Witness ==
    /\ Len(rows) = 2
    /\ rows[1] = [bill_id |-> "1", bill_type |-> "Power", bill_date |-> "2024-01-01",
                  units_of_measure |-> "kWh", consumption |-> "100", cost |-> "25.50"]
    /\ rows[2] = [bill_id |-> "2", bill_type |-> "Power", bill_date |-> "2024-02-01",
                  units_of_measure |-> "kWh", consumption |-> "120", cost |-> "30"]
    /\ issues = <<>>
    /\ canSubmit

\* The data rows of a read's file that reader.onload keeps.
LoadedSource(read) == KeepContent(ParsedFiles[read.file].rows)

\* The last position of a header's name in the header row is the one whose
\* cell the record holds.
IsLastOfName(hdrs, j) == \A j2 \in (j + 1)..Len(hdrs) : hdrs[j2] # hdrs[j]

\* C11: header-set invariant. In every state reached by Load (of files whose
\* data rows are shorter or longer than the header row), AddRow, RemoveRow
\* and EditCell on header fields, every record of rows has exactly the
\* current headers as its keys and every cell is a text; Load keeps the cells
\* the source row has under the headers' positions and represents each cell
\* the source row lacks as ''.
C11_HeaderSetInvariant ==
    /\ [](\A k \in 1..Len(rows) :
            /\ DOMAIN rows[k] = HeaderSet(headers)
            /\ \A h \in DOMAIN rows[k] : rows[k][h] \notin {Undefined, Null})
    /\ [][\A read \in reads : ReaderOnLoad(read) =>
            /\ Len(rows') = Len(LoadedSource(read))
            /\ \A k \in 1..Len(rows'), j \in 1..Len(headers') :
                 IsLastOfName(headers', j) =>
                    rows'[k][headers'[j]] =
                        IF j <= Len(LoadedSource(read)[k])
                        THEN LoadedSource(read)[k][j]
                        ELSE ""]_vars

\* meters.csv loaded (a row shorter and a row longer than the two headers)
\* and an empty row added.
C11_Witness ==
    /\ headers = <<"bill_id", "cost">>
    /\ rows = <<[bill_id |-> "7", cost |-> ""],
                [bill_id |-> "8", cost |-> "9"],
                [bill_id |-> "", cost |-> ""]>>

\* C12: submit guard. Whenever the validation inside Submit finds an issue,
\* Submit stores the issues found, sends no upload request and leaves
\* uploadState as it was; otherwise it sends one request; and every request
\* sent carries stringifyCsv(headers, rows) of rows for which validateRows
\* returned no issue.
C12_SubmitGuard ==
    /\ [][handleSubmit =>
            /\ issues' = validateRows(rows)
            /\ IF Len(validateRows(rows)) > 0
               THEN uploads' = uploads /\ uploadState' = uploadState
               ELSE /\ \E request \in uploads' : request.csv = stringifyCsv(headers, rows)
                    /\ uploadState'.status = "uploading"]_vars
    /\ [][\A request \in uploads' \ uploads :
            /\ handleSubmit
            /\ request.csv = stringifyCsv(headers, rows)
            /\ validateRows(rows) = <<>>]_vars

\* The loaded bills with the invalid second record removed were submitted:
\* the request carries the header line and the first record.
C12_Witness ==
    /\ uploadState.status = "uploading"
    /\ Len(rows) = 1
    /\ uploads = {[click |-> 3, fileName |-> "bills.csv",
                   csv |-> "bill_id,bill_type,bill_date,units_of_measure,consumption,cost\n"
                           \o "1,Power,2024-01-01,kWh,100,25.50"]}

\* C13: a transport failure preserves the batch. Submit's upload path leaves
\* headers and rows as they were and issues empty; the failure of the upload
\* changes uploadState only, to error with the failure's message; so headers,
\* rows and issues are as Submit left them and Submit is possible again
\* exactly when it was.
C13_FailurePreservesBatch ==
    /\ [][(handleSubmit /\ uploads' # uploads) =>
            /\ headers' = headers
            /\ rows' = rows
            /\ issues' = <<>>
            /\ (canSubmit => issues' = issues)]_vars
    /\ [][\A request \in uploads, message \in FailureMessages :
            UploadFails(request, message) =>
                /\ uploadState' = [status |-> "error", message |-> message]
                /\ headers' = headers
                /\ rows' = rows
                /\ issues' = issues
                /\ fileName' = fileName
                /\ reads' = reads
                /\ canSubmit' = canSubmit]_vars

\* The upload of the one valid record of the loaded bills failed: the record
\* is still in the grid and can be submitted again.
C13_Witness ==
    /\ uploadState = [status |-> "error", message |-> "Upload failed"]
    /\ uploads = {}
    /\ Len(rows) = 1
    /\ rows[1]["bill_id"] = "1"
    /\ issues = <<>>
    /\ canSubmit

\* C14: batch lifecycle. When an upload completes successfully the submitted
\* batch is discarded from the grid: afterwards rows is empty, or holds
\* something other than the records that were serialized into the request.
C14_BatchDiscardedOnSuccess ==
    [][\A request \in uploads :
        UploadSucceeds(request) =>
            (rows' = <<>> \/ stringifyCsv(headers', rows') # request.csv)]_vars

\* C15: read failure outcome. When the read of the selected file fails, the
\* grid is left with no rows and with exactly one issue, whose row is the
\* placeholder '-', whatever rows and issues it held before; CanSubmit is
\* false in that state.
C15_ReadFailureOutcome ==
    [][\A read \in reads :
        ReaderOnError(read) =>
            /\ rows' = <<>>
            /\ Len(issues') = 1
            /\ issues'[1].row = "-"
            /\ ~canSubmit']_vars

\* meters.csv was loaded and a later read failed: the headers are still those
\* of the file, the rows are gone and the placeholder issue is the only one.
C15_Witness ==
    /\ headers = <<"bill_id", "cost">>
    /\ rows = <<>>
    /\ issues = <<[row |-> "-", message |-> "Unable to read file"]>>
    /\ ~canSubmit

\* The number an issue's row text stands for (0 for the '-' of a failed read).
RowNumberOf(issue) ==
    IF \E n \in 2..(Len(rows) + 1) : issue.row = ToString(n)
    THEN CHOOSE n \in 2..(Len(rows) + 1) : issue.row = ToString(n)
    ELSE 0

RECURSIVE RenumberedAfterRemoval(_, _)
\* The issues of list without those of the record at index rowIdx, those of
\* the records after it reported one row earlier.
RenumberedAfterRemoval(list, rowIdx) ==
    IF Len(list) = 0 THEN <<>>
    ELSE LET n == RowNumberOf(Head(list))
             rest == RenumberedAfterRemoval(Tail(list), rowIdx)
         IN  IF n = rowIdx + 2 THEN rest
             ELSE IF n > rowIdx + 2
                  THEN <<[row |-> ToString(n - 1), message |-> Head(list).message]>> \o rest
                  ELSE <<Head(list)>> \o rest

\* C21: RemoveRow(i) with a valid index removes exactly the record at index
\* i: the records before it and after it stay as they were and in their
\* order, headers stay, the issues of the removed record disappear, an issue
\* of a record that was at index j > i is reported with row j+1 instead of
\* j+2, and the issues of the records below i keep their row.
C21_RemoveRowRenumbers ==
    [][\A rowIdx \in 0..(Len(rows) - 1) :
        handleRemoveRow(rowIdx) =>
            /\ headers' = headers
            /\ Len(rows') = Len(rows) - 1
            /\ \A k \in 1..rowIdx : rows'[k] = rows[k]
            /\ \A k \in (rowIdx + 2)..Len(rows) : rows'[k - 1] = rows[k]
            /\ issues' = RenumberedAfterRemoval(issues, rowIdx)]_vars

\* The loaded bills with an empty row added and the first record removed:
\* the second record of the file and the empty row are left, and the issues
\* that were reported with rows 3 and 4 carry rows 2 and 3.
C21_Witness ==
    /\ Len(rows) = 2
    /\ rows[1]["bill_id"] = "2"
    /\ rows[2] = [h \in HeaderSet(headers) |-> ""]
    /\ Len(issues) = 8
    /\ issues[1] = [row |-> "2", message |-> EnumMessage]
    /\ issues[2] = [row |-> "2", message |-> "consumption must be numeric"]
    /\ issues[3] = [row |-> "3", message |-> "bill_id is required"]

\* C22: header fallback. After the load of a source file that is empty or
\* has no header row, headers is the required-field list bill_id, bill_type,
\* bill_date, units_of_measure, consumption, cost, whatever headers an
\* earlier load installed.
C22_HeaderFallback ==
    [][\A read \in reads :
        (ReaderOnLoad(read) /\ Len(ParsedFiles[read.file].headers) = 0) =>
            headers' = REQUIRED_FIELDS]_vars

\* C23: no edits during an upload. While an upload awaits its response no
\* EditCell, AddRow, RemoveRow, Load or further Submit takes effect: headers
\* and rows stay as they were serialized, no file is selected or loaded, no
\* further request is sent, and at most one upload is in flight.
C23_NoEditsDuringUpload ==
    /\ [](Cardinality(uploads) <= 1)
    /\ [][uploads # {} =>
            /\ rows' = rows
            /\ headers' = headers
            /\ fileName' = fileName
            /\ reads' = reads
            /\ uploads' \subseteq uploads]_vars

\* A file whose header row is non-empty and whose data rows have as many
\* cells as the header row.
IsRectangular(file) ==
    /\ Len(ParsedFiles[file].headers) > 0
    /\ \A k \in 1..Len(ParsedFiles[file].rows) :
         Len(ParsedFiles[file].rows[k]) = Len(ParsedFiles[file].headers)

\* The CSV text whose line i holds the cells of lines[i], escaped, in order.
CsvOfCells(lines) ==
    Join([i \in 1..Len(lines) |->
            Join([j \in 1..Len(lines[i]) |-> escapeCell(lines[i][j])], Comma)], LF)

\* C26: load-then-submit fidelity. When the grid holds a rectangular file
\* with a non-empty header row as it was loaded, without any edit, and Submit
\* sends a request, the CSV of the request has the file's header cells in
\* its first line and, in data line i and column j, the parsed cell (i, j) of
\* the file, also when two header cells carry the same name.
C26_LoadSubmitFidelity ==
    [][\A file \in ValidFiles :
        ( /\ handleSubmit
          /\ uploads' # uploads
          /\ IsRectangular(file)
          /\ headers = ParsedFiles[file].headers
          /\ rows = SanitizedRows(headers, ParsedFiles[file].rows) ) =>
            \A request \in uploads' \ uploads :
                request.csv = CsvOfCells(<<ParsedFiles[file].headers>>
                                            \o ParsedFiles[file].rows)]_vars

C28_LastSelectedFileWins ==
    [][\A read \in reads :
        (ReaderOnLoad(read) /\ reads' = {}) =>
            /\ read.file.name = fileName'
            /\ rows' = SanitizedRows(headers', ParsedFiles[CHOOSE file \in Files :
                                                    file.name = fileName'].rows)]_vars

----------------------------------------------------------------------------
(* The Tables components: sort state and page                               *)

MaxTableRows == 3   \* most bills of a fetched page
MaxPages == 2       \* the pages the fetch reports

TABLE_COLUMNS ==
    << [key |-> "bill_date", sortType |-> "date", defaultDirection |-> "desc"],
       [key |-> "service_period", sortType |-> "date", defaultDirection |-> "desc"],
       [key |-> "consumption", sortType |-> "number", defaultDirection |-> "desc"],
       [key |-> "cost", sortType |-> "number", defaultDirection |-> "desc"],
       [key |-> "provider", sortType |-> "string", defaultDirection |-> "asc"],
       [key |-> "location", sortType |-> "string", defaultDirection |-> "asc"],
       [key |-> "timestamp_upload", sortType |-> "date", defaultDirection |-> "desc"] >>

ColumnKeys == {TABLE_COLUMNS[k].key : k \in 1..Len(TABLE_COLUMNS)}

\* Whether TABLE_COLUMNS.find((entry) => entry.key === columnKey) finds one.
HasColumn(columnKey) == columnKey \in ColumnKeys

\* TABLE_COLUMNS.find((entry) => entry.key === columnKey), when it finds one.
FindColumn(columnKey) ==
    TABLE_COLUMNS[CHOOSE k \in 1..Len(TABLE_COLUMNS) :
                    /\ TABLE_COLUMNS[k].key = columnKey
                    /\ \A j \in 1..(k - 1) : TABLE_COLUMNS[j].key # columnKey]

\* A variant of the updater that activates a column with the direction in use.
SortUpdaterKeepsDirection(current, columnKey) ==
    IF current.key = columnKey
    THEN [key |-> columnKey,
          direction |-> IF current.direction = "asc" THEN "desc" ELSE "asc"]
    ELSE [key |-> columnKey,
          direction |-> IF current.direction \in {"asc", "desc"}
                        THEN current.direction
                        ELSE "asc"]

\* The updater handleSort passes to setSortConfig, the same in both versions.
SortUpdater(current, columnKey) ==
    IF current.key = columnKey
    THEN [key |-> columnKey,
          direction |-> IF current.direction = "asc" THEN "desc" ELSE "asc"]
    ELSE [key |-> columnKey,
          direction |-> IF HasColumn(columnKey)
                        THEN FindColumn(columnKey).defaultDirection
                        ELSE "asc"]

\* handleSort of the MUI version: nothing for an unknown column; otherwise
\* the sort state is updated and the first page is shown.
MuiHandleSort(columnKey) ==
    /\ tablesVersion = "mui"
    /\ IF ~HasColumn(columnKey)
       THEN UNCHANGED <<sortConfig, page>>
       ELSE /\ sortConfig' = SortUpdater(sortConfig, columnKey)
            /\ page' = 1
    /\ UNCHANGED <<tablesVersion, totalPages, tableRows>>
    /\ UNCHANGED tableOthers

\* handleSort of the plain version.
PlainHandleSort(columnKey) ==
    /\ tablesVersion = "plain"
    /\ sortConfig' = SortUpdater(sortConfig, columnKey)
    /\ UNCHANGED <<tablesVersion, page, totalPages, tableRows>>
    /\ UNCHANGED tableOthers

\* Pagination onChange of the MUI version: setPage(value).
MuiPageChange(value) ==
    /\ tablesVersion = "mui"
    /\ page' = value
    /\ UNCHANGED <<tablesVersion, sortConfig, totalPages, tableRows>>
    /\ UNCHANGED tableOthers

\* The Previous button of the plain version, disabled when page <= 1.
PlainPrevious ==
    /\ tablesVersion = "plain"
    /\ ~(page <= 1)
    /\ page' = IF page - 1 > 1 THEN page - 1 ELSE 1
    /\ UNCHANGED <<tablesVersion, sortConfig, totalPages, tableRows>>
    /\ UNCHANGED tableOthers

\* The Next button of the plain version, disabled when page >= totalPages.
PlainNext ==
    /\ tablesVersion = "plain"
    /\ ~(page >= totalPages)
    /\ page' = IF page + 1 < totalPages THEN page + 1 ELSE totalPages
    /\ UNCHANGED <<tablesVersion, sortConfig, totalPages, tableRows>>
    /\ UNCHANGED tableOthers

----------------------------------------------------------------------------
(* The Tables components: Number(value) and the number branch               *)

RECURSIVE Pow10(_)
Pow10(n) == IF n <= 0 THEN 1 ELSE 10 * Pow10(n - 1)

RECURSIVE DigitsValue(_, _)
\* The value of a run of decimal digits.
DigitsValue(text, acc) ==
    IF Len(text) = 0 THEN acc
    ELSE DigitsValue(Tail(text), acc * 10 + DigitValue(Head(text)))

\* The value of a StrDecimalLiteral that NumberClass finds finite, as
\* mantissa m and scale s: the number is m / 10^s (s may be negative).
DecimalNumber(text) ==
    LET neg == Len(text) > 0 /\ Head(text) = "-"
        body == IF Len(text) > 0 /\ Head(text) \in {"+", "-"} THEN Tail(text) ELSE text
        ePos == FirstOf(body, {"e", "E"})
        mant == IF ePos = 0 THEN body ELSE Slice(body, 1, ePos - 1)
        expo == IF ePos = 0 THEN "" ELSE Slice(body, ePos + 1, Len(body))
        expNeg == Len(expo) > 0 /\ Head(expo) = "-"
        expDigits == IF Len(expo) > 0 /\ Head(expo) \in {"+", "-"} THEN Tail(expo) ELSE expo
        dot == FirstOf(mant, {"."})
        intPart == IF dot = 0 THEN mant ELSE Slice(mant, 1, dot - 1)
        fracPart == IF dot = 0 THEN "" ELSE Slice(mant, dot + 1, Len(mant))
        digits == DigitsValue(intPart \o fracPart, 0)
        exp == DigitsValue(expDigits, 0)
    IN  [kind |-> "finite",
         m |-> IF neg THEN 0 - digits ELSE digits,
         s |-> Len(fracPart) - (IF expNeg THEN 0 - exp ELSE exp)]

NaN == [kind |-> "nan", m |-> 0, s |-> 0]
Infinity(negative) == [kind |-> IF negative THEN "neginf" ELSE "posinf", m |-> 0, s |-> 0]
Zero == [kind |-> "finite", m |-> 0, s |-> 0]

\* The value of a hexadecimal, octal or binary digit.
RadixDigitValue(c) ==
    IF c \in Digits THEN DigitValue(c)
    ELSE CASE c \in {"a", "A"} -> 10 [] c \in {"b", "B"} -> 11 [] c \in {"c", "C"} -> 12
           [] c \in {"d", "D"} -> 13 [] c \in {"e", "E"} -> 14 [] c \in {"f", "F"} -> 15

RECURSIVE RadixValue(_, _, _)
RadixValue(text, base, acc) ==
    IF Len(text) = 0 THEN acc
    ELSE RadixValue(Tail(text), base, acc * base + RadixDigitValue(Head(text)))

\* The value of a 0x, 0o or 0b literal that NumberClass finds finite.
RadixNumber(text) ==
    LET base == CASE Slice(text, 2, 2) \in {"x", "X"} -> 16
                  [] Slice(text, 2, 2) \in {"o", "O"} -> 8
                  [] Slice(text, 2, 2) \in {"b", "B"} -> 2
    IN  [kind |-> "finite", m |-> RadixValue(Slice(text, 3, Len(text)), base, 0), s |-> 0]

\* Number(value) for null, undefined and the texts a bill's JSON holds
\* (a decimal is serialised as its text): null is 0, undefined is NaN, a
\* text is read as a numeric literal.
ToNumber(value) ==
    IF value = Null THEN Zero
    ELSE IF value = Undefined THEN NaN
    ELSE LET t == Trim(value) IN
         IF t = "" THEN Zero
         ELSE IF NumberClass(value) = "nan" THEN NaN
         ELSE IF Slice(t, 1, 2) \in {"0x", "0X", "0o", "0O", "0b", "0B"} THEN RadixNumber(t)
         ELSE IF NumberClass(value) = "infinite" THEN Infinity(Head(t) = "-")
         ELSE DecimalNumber(t)

\* The sign of a - b for two numbers that are not NaN and not the same
\* infinity.
SignOfDifference(a, b) ==
    LET rank(x) == CASE x.kind = "neginf" -> 0 [] x.kind = "finite" -> 1 [] x.kind = "posinf" -> 2
    IN  IF rank(a) # rank(b) THEN (IF rank(a) < rank(b) THEN -1 ELSE 1)
        ELSE LET S == IF a.s > b.s THEN a.s ELSE b.s
                 x == a.m * Pow10(S - a.s)
                 y == b.m * Pow10(S - b.s)
             IN  IF x < y THEN -1 ELSE IF x > y THEN 1 ELSE 0

\* numberA === numberB for two numbers that are not NaN.
SameNumber(a, b) == a.kind = b.kind /\ SignOfDifference(a, b) = 0

\* A variant of the number branch without the test for equal numbers.
MuiCompareNumberNoTie(valueA, valueB, direction) ==
    LET numberA == ToNumber(valueA)
        numberB == ToNumber(valueB)
        hasNumberA == numberA.kind = "finite"
        hasNumberB == numberB.kind = "finite"
    IN  IF ~hasNumberA /\ ~hasNumberB THEN 0
        ELSE IF ~hasNumberA THEN 1
        ELSE IF ~hasNumberB THEN -1
        ELSE IF SignOfDifference(numberA, numberB) < 0 THEN -1 * direction
        ELSE 1 * direction

\* The number branch of the MUI version's comparator; the sign of what it
\* returns.
MuiCompareNumber(valueA, valueB, direction) ==
    LET numberA == ToNumber(valueA)
        numberB == ToNumber(valueB)
        hasNumberA == numberA.kind = "finite"
        hasNumberB == numberB.kind = "finite"
    IN  IF ~hasNumberA /\ ~hasNumberB THEN 0
        ELSE IF ~hasNumberA THEN 1
        ELSE IF ~hasNumberB THEN -1
        ELSE IF SameNumber(numberA, numberB) THEN 0
        ELSE SignOfDifference(numberA, numberB) * direction

\* The number branch of the plain version's comparator; the sign of what it
\* returns.
PlainCompareNumber(valueA, valueB, direction) ==
    LET numberA == ToNumber(valueA)
        numberB == ToNumber(valueB)
        hasNumberA == numberA.kind # "nan"
        hasNumberB == numberB.kind # "nan"
        fallback == Infinity(direction # 1)
        resolvedA == IF hasNumberA THEN numberA ELSE fallback
        resolvedB == IF hasNumberB THEN numberB ELSE fallback
    IN  IF ~hasNumberA /\ ~hasNumberB THEN 0
        ELSE IF SameNumber(resolvedA, resolvedB) THEN 0
        ELSE SignOfDifference(resolvedA, resolvedB) * direction

----------------------------------------------------------------------------
(* The Tables components: date keys                                         *)

\* Days from 1970-01-01 to the civil date y-m-d.
DaysFromCivil(y, m, d) ==
    LET yy == IF m <= 2 THEN y - 1 ELSE y
        era == yy \div 400
        yoe == yy - era * 400
        doy == (153 * (IF m > 2 THEN m - 3 ELSE m + 9) + 2) \div 5 + d - 1
        doe == yoe * 365 + yoe \div 4 - yoe \div 100 + doy
    IN  era * 146097 + doe - 719468

IsLeapYear(y) == (y % 4 = 0 /\ y % 100 # 0) \/ y % 400 = 0

DaysInMonth(y, m) ==
    IF m = 2 THEN (IF IsLeapYear(y) THEN 29 ELSE 28)
    ELSE IF m \in {4, 6, 9, 11} THEN 30 ELSE 31

\* /^\d{4}-\d{2}-\d{2}$/.test(text)
IsIsoDate(text) ==
    /\ Len(text) = 10
    /\ AllIn(Slice(text, 1, 4) \o Slice(text, 6, 7) \o Slice(text, 9, 10), Digits)
    /\ Slice(text, 5, 5) = "-"
    /\ Slice(text, 8, 8) = "-"

\* The T00:00:00Z form of a time of day.
IsIsoTime(text) ==
    /\ Len(text) = 10
    /\ Slice(text, 1, 1) = "T"
    /\ AllIn(Slice(text, 2, 3) \o Slice(text, 5, 6) \o Slice(text, 8, 9), Digits)
    /\ Slice(text, 4, 4) = ":"
    /\ Slice(text, 7, 7) = ":"
    /\ Slice(text, 10, 10) = "Z"

\* A time value, and the null that stands for no time.
Time(t) == [valid |-> TRUE, t |-> t]
NullTime == [valid |-> FALSE, t |-> 0]

\* new Date(text).getTime(), in seconds, with NullTime for NaN.  The texts
\* read are a calendar date YYYY-MM-DD, alone or followed by THH:MM:SSZ,
\* both UTC; any other text has no date reading (the bills of the model
\* hold dates as the API serialises them, or a text that is no date in any
\* reading).
DateTime(text) ==
    LET datePart == Slice(text, 1, 10)
        timePart == Slice(text, 11, Len(text))
        y == DigitsValue(Slice(datePart, 1, 4), 0)
        m == DigitsValue(Slice(datePart, 6, 7), 0)
        d == DigitsValue(Slice(datePart, 9, 10), 0)
        hh == DigitsValue(Slice(timePart, 2, 3), 0)
        mm == DigitsValue(Slice(timePart, 5, 6), 0)
        ss == DigitsValue(Slice(timePart, 8, 9), 0)
    IN  IF ~IsIsoDate(datePart) THEN NullTime
        ELSE IF m < 1 \/ m > 12 \/ d < 1 \/ d > DaysInMonth(y, m) THEN NullTime
        ELSE IF timePart = "" THEN Time(DaysFromCivil(y, m, d) * 86400)
        ELSE IF ~IsIsoTime(timePart) \/ hh > 23 \/ mm > 59 \/ ss > 59 THEN NullTime
        ELSE Time(DaysFromCivil(y, m, d) * 86400 + hh * 3600 + mm * 60 + ss)

\* parseDateValue of the MUI version, for null, undefined and texts.
parseDateValue(value) ==
    IF ~Truthy(value) THEN NullTime
    ELSE IF Trim(value) = "" THEN NullTime
    ELSE DateTime(Trim(value))

\* normaliseDate of the plain version.
normaliseDate(value) ==
    IF ~Truthy(value) THEN NullTime ELSE DateTime(value)

\* a ?? b on times.
OrElse(a, b) == IF a.valid THEN a ELSE b

\* getDateSortValue of the MUI version.
getDateSortValue(row, key) ==
    CASE key = "bill_date" -> parseDateValue(Get(row, "bill_date"))
      [] key = "service_period" ->
            OrElse(OrElse(parseDateValue(Get(row, "service_start")),
                          parseDateValue(Get(row, "service_end"))),
                   parseDateValue(Get(row, "bill_date")))
      [] key = "timestamp_upload" -> parseDateValue(Get(row, "timestamp_upload"))
      [] OTHER -> NullTime

\* [row.city, row.state, row.zip].filter(Boolean).join(' ')
LocationText(row) ==
    LET part(f) == IF Truthy(Get(row, f)) THEN <<Get(row, f)>> ELSE <<>>
    IN  Join(part("city") \o part("state") \o part("zip"), " ")

\* a || b on a bill's values.
OrValue(a, b) == IF Truthy(a) THEN a ELSE b

\* getSortValue of the plain version.
getSortValue(row, columnKey) ==
    CASE columnKey = "bill_date" -> Get(row, "bill_date")
      [] columnKey = "service_period" ->
            OrValue(Get(row, "service_start"),
                    OrValue(Get(row, "service_end"), Get(row, "bill_date")))
      [] columnKey = "consumption" -> Get(row, "consumption")
      [] columnKey = "cost" -> Get(row, "cost")
      [] columnKey = "provider" -> Get(row, "provider")
      [] columnKey = "location" -> LocationText(row)
      [] columnKey = "timestamp_upload" -> Get(row, "timestamp_upload")
      [] OTHER -> ""

Sign(n) == IF n < 0 THEN -1 ELSE IF n > 0 THEN 1 ELSE 0

\* A variant of the date branch without the comparison of the end dates.
MuiCompareDateNoTieBreak(a, b, key, direction) ==
    LET timeA == getDateSortValue(a, key)
        timeB == getDateSortValue(b, key)
    IN  IF ~timeA.valid /\ ~timeB.valid THEN 0
        ELSE IF ~timeA.valid THEN 1
        ELSE IF ~timeB.valid THEN -1
        ELSE IF timeA = timeB THEN 0
        ELSE Sign(timeA.t - timeB.t) * direction

\* The date branch of the MUI version's comparator; the sign of what it
\* returns.
MuiCompareDate(a, b, key, direction) ==
    LET timeA == getDateSortValue(a, key)
        timeB == getDateSortValue(b, key)
        endA == parseDateValue(Get(a, "service_end"))
        endB == parseDateValue(Get(b, "service_end"))
    IN  IF ~timeA.valid /\ ~timeB.valid THEN 0
        ELSE IF ~timeA.valid THEN 1
        ELSE IF ~timeB.valid THEN -1
        ELSE IF timeA = timeB /\ key = "service_period" /\ endA # endB
             THEN IF ~endA.valid THEN 1
                  ELSE IF ~endB.valid THEN -1
                  ELSE Sign(endA.t - endB.t) * direction
        ELSE IF timeA = timeB THEN 0
        ELSE Sign(timeA.t - timeB.t) * direction

\* A variant of the date branch in which the direction also applies to a
\* missing date.
PlainCompareDateMissingByDirection(valueA, valueB, direction) ==
    LET timeA == normaliseDate(valueA)
        timeB == normaliseDate(valueB)
    IN  IF ~timeA.valid /\ ~timeB.valid THEN 0
        ELSE IF ~timeA.valid THEN direction
        ELSE IF ~timeB.valid THEN -direction
        ELSE IF timeA = timeB THEN 0
        ELSE Sign(timeA.t - timeB.t) * direction

\* The date branch of the plain version's comparator.
PlainCompareDate(valueA, valueB, direction) ==
    LET timeA == normaliseDate(valueA)
        timeB == normaliseDate(valueB)
    IN  IF ~timeA.valid /\ ~timeB.valid THEN 0
        ELSE IF ~timeA.valid THEN 1
        ELSE IF ~timeB.valid THEN -1
        ELSE IF timeA = timeB THEN 0
        ELSE Sign(timeA.t - timeB.t) * direction

----------------------------------------------------------------------------
(* The Tables components: text keys, the comparator and sortedRows          *)

\* The primary collation order of the characters the model's texts use:
\* white space, digits, letters.
CollationOrder == " 0123456789abcdefghijklmnopqrstuvwxyz"
UpperCase == "ABCDEFGHIJKLMNOPQRSTUVWXYZ"
LowerCase == "abcdefghijklmnopqrstuvwxyz"

\* The base letter of each upper-case letter: sensitivity 'base' ignores case.
BaseLetters ==
    [c \in {Slice(UpperCase, k, k) : k \in 1..Len(UpperCase)} |->
        Slice(LowerCase, FirstOf(UpperCase, {c}), FirstOf(UpperCase, {c}))]

BaseLetter(c) == IF c \in DOMAIN BaseLetters THEN BaseLetters[c] ELSE c

\* The place of each character in the collation order.
CollationRanks ==
    [c \in {Slice(CollationOrder, k, k) : k \in 1..Len(CollationOrder)} |->
        FirstOf(CollationOrder, {c})]

CollationRank(c) ==
    IF BaseLetter(c) \in DOMAIN CollationRanks THEN CollationRanks[BaseLetter(c)] ELSE 0

RECURSIVE CollatorCompare(_, _)
\* collator.compare(textA, textB) of Intl.Collator('en', {sensitivity: 'base'}):
\* negative, zero or positive.
CollatorCompare(textA, textB) ==
    IF Len(textA) = 0 /\ Len(textB) = 0 THEN 0
    ELSE IF Len(textA) = 0 THEN -1
    ELSE IF Len(textB) = 0 THEN 1
    ELSE IF CollationRank(Head(textA)) # CollationRank(Head(textB))
         THEN Sign(CollationRank(Head(textA)) - CollationRank(Head(textB)))
         ELSE CollatorCompare(Tail(textA), Tail(textB))

\* String(value ?? '').trim()
TextOf(value) == IF value \in {Null, Undefined} THEN "" ELSE Trim(value)

\* The string branch of the MUI version's comparator.
MuiCompareString(a, b, key, direction) ==
    LET textA == TextOf(IF key = "location" THEN LocationText(a) ELSE Get(a, key))
        textB == TextOf(IF key = "location" THEN LocationText(b) ELSE Get(b, key))
    IN  CollatorCompare(textA, textB) * direction

\* The string branch of the plain version's comparator.
PlainCompareString(valueA, valueB, direction) ==
    LET comparison == CollatorCompare(TextOf(valueA), TextOf(valueB))
    IN  IF comparison = 0 THEN 0 ELSE comparison * direction

\* The comparator of the MUI version's sortedRows: the sign of what it
\* returns for (a, b).
MuiComparator(a, b, column, direction) ==
    IF column.sortType = "number"
    THEN MuiCompareNumber(Get(a, column.key), Get(b, column.key), direction)
    ELSE IF column.sortType = "date"
    THEN MuiCompareDate(a, b, column.key, direction)
    ELSE MuiCompareString(a, b, column.key, direction)

\* The comparator of the plain version's sortedRows.
PlainComparator(a, b, column, direction) ==
    LET valueA == getSortValue(a, column.key)
        valueB == getSortValue(b, column.key)
    IN  IF column.sortType = "number" THEN PlainCompareNumber(valueA, valueB, direction)
        ELSE IF column.sortType = "date" THEN PlainCompareDate(valueA, valueB, direction)
        ELSE PlainCompareString(valueA, valueB, direction)

Comparator(version, a, b, column, direction) ==
    IF version = "mui" THEN MuiComparator(a, b, column, direction)
    ELSE PlainComparator(a, b, column, direction)

RECURSIVE InsertSorted(_, _, _, _, _)
\* A row put into a sorted list behind every row that does not compare
\* greater than it.
InsertSorted(sorted, row, version, column, direction) ==
    IF Len(sorted) = 0 THEN <<row>>
    ELSE IF Comparator(version, sorted[Len(sorted)], row, column, direction) > 0
         THEN Append(InsertSorted(SubSeq(sorted, 1, Len(sorted) - 1), row,
                                  version, column, direction),
                     sorted[Len(sorted)])
         ELSE Append(sorted, row)

RECURSIVE SortStable(_, _, _, _)
\* [...rows].sort(comparator).  Array.prototype.sort is stable and, for a
\* comparator that is a consistent ordering, every stable sort yields the
\* same list; it is computed here by insertion.
SortStable(list, version, column, direction) ==
    IF Len(list) = 0 THEN <<>>
    ELSE InsertSorted(SortStable(SubSeq(list, 1, Len(list) - 1), version, column, direction),
                      list[Len(list)], version, column, direction)

\* sortedRows for given rows and sort state.
SortedWith(version, list, config) ==
    IF config = NullSortConfig THEN list
    ELSE IF ~HasColumn(config.key) THEN list
    ELSE SortStable(list, version, FindColumn(config.key),
                    IF config.direction = "asc" THEN 1 ELSE -1)

sortedRows == SortedWith(tablesVersion, tableRows, sortConfig)

----------------------------------------------------------------------------
(* The Tables components: the bills shown and the specification             *)

Bill(id, bill_date, service_start, service_end, consumption, cost, provider, city, state, zip, timestamp_upload) ==
    [bill_id |-> id, bill_date |-> bill_date, service_start |-> service_start,
     service_end |-> service_end, consumption |-> consumption, cost |-> cost,
     provider |-> provider, city |-> city, state |-> state, zip |-> zip,
     timestamp_upload |-> timestamp_upload]

\* The bills a fetched page is made of.  Decimals and dates are texts as the
\* API serialises them; every column but bill_id is nullable.
BillA == Bill("1", "2024-01-01", "2023-12-01", "2023-12-31", "100", "100",
              "Acme", "Austin", "TX", "73301", "2024-01-02T10:00:00Z")
BillB == Bill("2", Null, Null, Null, Null, Null, Null, Null, Null, Null, Null)
BillC == Bill("3", "2024-02-01", "2023-12-01", "2024-01-15", "50.5", "50",
              "Beta", "Boston", "MA", "02108", "2024-02-02T09:30:00Z")
BillD == Bill("4", "2024-01-01", "2023-12-01", "2023-12-31", "100", "100",
              "Acme", "Austin", "TX", "73301", "2024-01-02T10:00:00Z")
BillE == Bill("5", "n/a", "2023-12-01", Null, Undefined, "abc",
              "acme", "", "TX", "", Undefined)

BillPool == {BillA, BillB, BillC, BillD, BillE}

\* The pages a fetch delivers: lists of different bills.
TableRowLists ==
    {list \in SeqsUpTo(BillPool, 0, MaxTableRows) :
        \A i, j \in 1..Len(list) : i # j => list[i] # list[j]}

\* A Tables component whose first fetch has delivered a page and reported
\* MaxPages pages.
TablesInit ==
    /\ tablesVersion \in {"mui", "plain"}
    /\ sortConfig = IF tablesVersion = "mui"
                    THEN [key |-> "bill_date", direction |-> "desc"]
                    ELSE NullSortConfig
    /\ page = 1
    /\ totalPages = MaxPages
    /\ tableRows \in TableRowLists
    /\ FetchIdle

TablesNext ==
    \/ \E columnKey \in ColumnKeys : MuiHandleSort(columnKey)
    \/ \E columnKey \in ColumnKeys : PlainHandleSort(columnKey)
    \/ \E value \in 1..totalPages : MuiPageChange(value)
    \/ PlainPrevious
    \/ PlainNext

TablesStart == TablesInit /\ CsvIdle /\ ValIdle /\ GridIdle

TablesSpec == TablesStart /\ [][TablesNext]_vars

----------------------------------------------------------------------------
(* The Tables components: loadBills and the effects that call it            *)

MaxTableOps == 3    \* most user operations on the table

\* The utilities and page sizes a user chooses among.
Utilities == {"Power", "Gas"}
PageSizes == {20, 50}

\* The dependencies of loadBills as a render with the given state has them:
\* utility, page and pageSize and, in the MUI version, sortKey and
\* sortDirection (sortConfig?.key ?? 'bill_date', sortConfig?.direction ??
\* 'desc').
Params(version, u, p, size, config) ==
    [utility |-> u, page |-> p, pageSize |-> size,
     sortKey |-> IF version # "mui" THEN Null
                 ELSE IF config = NullSortConfig THEN "bill_date" ELSE config.key,
     sortDirection |-> IF version # "mui" THEN Null
                       ELSE IF config = NullSortConfig THEN "desc" ELSE config.direction]

\* A call of loadBills under way: the parameters its closure holds and the
\* user operation after which it was made.
Request(params, op) == [params |-> params, op |-> op]

\* The calls of loadBills that the effect makes when a render's parameters
\* differ from those of the render before.
Reloads(before, after, op) ==
    IF after = before THEN {} ELSE {Request(after, op)}

\* The bills API as the model's server answers a request that succeeds:
\* Power has MaxPages pages of 20 and one page of 50, Gas has one page.
ServerPages(params) ==
    IF params.utility = "Power" /\ params.pageSize = 20 THEN MaxPages ELSE 1

ServerResults(params) ==
    IF params.page > ServerPages(params) THEN <<>>
    ELSE IF params.utility = "Gas" THEN <<BillE>>
    ELSE IF params.pageSize = 50 THEN <<BillA, BillC, BillD>>
    ELSE IF params.page = 1 THEN <<BillA, BillC>>
    ELSE IF params.page = 2 THEN <<BillD>>
    ELSE <<BillB>>

ServerCount(params) ==
    IF params.utility = "Gas" THEN 1 ELSE 2 + ServerPages(params)

\* The utility toggle: setUtility(value).  The render with the new utility
\* calls loadBills with the page as it was; the effect on utility sets page
\* to 1, and the render that follows calls loadBills again when that changed
\* the page.
UtilityChange(value) ==
    /\ tablesVersion \in {"mui", "plain"}
    /\ tableOps < MaxTableOps
    /\ value # utility
    /\ tableOps' = tableOps + 1
    /\ utility' = value
    /\ page' = 1
    /\ fetches' = fetches
            \cup {Request(Params(tablesVersion, value, page, pageSize, sortConfig), tableOps')}
            \cup Reloads(Params(tablesVersion, value, page, pageSize, sortConfig),
                         Params(tablesVersion, value, 1, pageSize, sortConfig), tableOps')
    /\ loading' = TRUE
    /\ UNCHANGED <<tablesVersion, sortConfig, totalPages, tableRows, pageSize, totalCount>>
    /\ UNCHANGED fetchOthers

\* The rows-per-page select: setPageSize(value); setPage(1).
PageSizeChange(value) ==
    /\ tablesVersion \in {"mui", "plain"}
    /\ tableOps < MaxTableOps
    /\ value # pageSize
    /\ tableOps' = tableOps + 1
    /\ pageSize' = value
    /\ page' = 1
    /\ fetches' = fetches
            \cup {Request(Params(tablesVersion, utility, 1, value, sortConfig), tableOps')}
    /\ loading' = TRUE
    /\ UNCHANGED <<tablesVersion, sortConfig, totalPages, tableRows, utility, totalCount>>
    /\ UNCHANGED fetchOthers

\* A click on a column header: handleSort, and in the MUI version the call
\* of loadBills that follows from the new sortKey, sortDirection and page.
SortClick(columnKey) ==
    /\ tablesVersion \in {"mui", "plain"}
    /\ tableOps < MaxTableOps
    /\ tableOps' = tableOps + 1
    /\ sortConfig' = SortUpdater(sortConfig, columnKey)
    /\ page' = IF tablesVersion = "mui" THEN 1 ELSE page
    /\ \E calls \in {Reloads(Params(tablesVersion, utility, page, pageSize, sortConfig),
                            Params(tablesVersion, utility, page', pageSize, sortConfig'),
                            tableOps')} :
          /\ fetches' = fetches \cup calls
          /\ loading' = IF calls = {} THEN loading ELSE TRUE
    /\ UNCHANGED <<tablesVersion, totalPages, tableRows, utility, pageSize, totalCount>>
    /\ UNCHANGED fetchOthers

\* A page control: Pagination onChange of the MUI version (value is one of
\* the pages 1..totalPages it shows), Previous and Next of the plain version
\* (disabled at page <= 1 and at page >= totalPages).
PageClick(value) ==
    /\ tableOps < MaxTableOps
    /\ \/ tablesVersion = "mui" /\ value \in 1..totalPages
       \/ /\ tablesVersion = "plain"
          /\ ~(page <= 1)
          /\ value = IF page - 1 > 1 THEN page - 1 ELSE 1
       \/ /\ tablesVersion = "plain"
          /\ ~(page >= totalPages)
          /\ value = IF page + 1 < totalPages THEN page + 1 ELSE totalPages
    /\ tableOps' = tableOps + 1
    /\ page' = value
    /\ \E calls \in {Reloads(Params(tablesVersion, utility, page, pageSize, sortConfig),
                            Params(tablesVersion, utility, value, pageSize, sortConfig),
                            tableOps')} :
          /\ fetches' = fetches \cup calls
          /\ loading' = IF calls = {} THEN loading ELSE TRUE
    /\ UNCHANGED <<tablesVersion, sortConfig, totalPages, tableRows, utility, pageSize, totalCount>>
    /\ UNCHANGED fetchOthers

\* The response of a call of loadBills arrives with response.ok: the try
\* block and finally.  setPage(resolvedPages) compares the page of the call's
\* closure; when it changes the page, the render that follows calls
\* loadBills again.
LoadBillsSucceeds(request) ==
    /\ request \in fetches
    /\ tableRows' = ServerResults(request.params)
    /\ totalCount' = ServerCount(request.params)
    /\ totalPages' = ServerPages(request.params)
    /\ page' = IF request.params.page > totalPages' THEN totalPages' ELSE page
    /\ \E calls \in {Reloads(Params(tablesVersion, utility, page, pageSize, sortConfig),
                            Params(tablesVersion, utility, page', pageSize, sortConfig),
                            tableOps)} :
          /\ fetches' = (fetches \ {request}) \cup calls
          /\ loading' = (calls # {})
    /\ UNCHANGED <<tablesVersion, sortConfig, utility, pageSize, tableOps>>
    /\ UNCHANGED fetchOthers

\* fetch rejects or the response is not ok: the catch block and finally.
LoadBillsFails(request) ==
    /\ request \in fetches
    /\ fetches' = fetches \ {request}
    /\ tableRows' = <<>>
    /\ totalCount' = 0
    /\ totalPages' = 1
    /\ loading' = FALSE
    /\ UNCHANGED <<tablesVersion, sortConfig, page, utility, pageSize, tableOps>>
    /\ UNCHANGED fetchOthers

\* A Tables component as mounted: the first call of loadBills is under way.
FetchInit ==
    /\ tablesVersion \in {"mui", "plain"}
    /\ sortConfig = IF tablesVersion = "mui"
                    THEN [key |-> "bill_date", direction |-> "desc"]
                    ELSE NullSortConfig
    /\ page = 1
    /\ totalPages = 1
    /\ tableRows = <<>>
    /\ utility = "Power"
    /\ pageSize = 20
    /\ totalCount = 0
    /\ loading = TRUE
    /\ fetches = {Request(Params(tablesVersion, "Power", 1, 20, sortConfig), 0)}
    /\ tableOps = 0

FetchNext ==
    \/ \E value \in Utilities : UtilityChange(value)
    \/ \E value \in PageSizes : PageSizeChange(value)
    \/ \E columnKey \in ColumnKeys : SortClick(columnKey)
    \/ \E value \in 1..MaxPages : PageClick(value)
    \/ \E request \in fetches : LoadBillsSucceeds(request)
    \/ \E request \in fetches : LoadBillsFails(request)

FetchStart == FetchInit /\ CsvIdle /\ ValIdle /\ GridIdle

FetchSpec == FetchStart /\ [][FetchNext]_vars

----------------------------------------------------------------------------
(* Properties of the Tables components                                      *)

\* The configured default direction of each column.
DefaultDirectionOf(columnKey) ==
    IF columnKey \in {"provider", "location"} THEN "asc" ELSE "desc"

Flipped(direction) == IF direction = "asc" THEN "desc" ELSE "asc"

\* C16: sort toggle rule, in both Tables versions. handleSort(k) on the
\* active sort column keeps the key and flips the direction; on any other
\* column of TABLE_COLUMNS it sets the sort state to k with k's default
\* direction. Hence a second click on the active column restores the sort
\* state, and a column activated again after another one starts from its
\* default direction, whatever direction it had before.
C16_SortToggleRule ==
    [][\A k \in ColumnKeys :
        (MuiHandleSort(k) \/ PlainHandleSort(k)) =>
            /\ sortConfig' = IF sortConfig.key = k
                             THEN [key |-> k, direction |-> Flipped(sortConfig.direction)]
                             ELSE [key |-> k, direction |-> DefaultDirectionOf(k)]
            /\ sortConfig.key = k => SortUpdater(sortConfig', k) = sortConfig
            /\ \A j \in ColumnKeys \ {k} :
                 SortUpdater(SortUpdater(sortConfig', j), k)
                    = [key |-> k, direction |-> DefaultDirectionOf(k)]]_vars

\* The cost column, whose default is descending, is active and ascending in
\* the plain version: it was clicked while active.
C16_Witness ==
    /\ tablesVersion = "plain"
    /\ sortConfig = [key |-> "cost", direction |-> "asc"]

\* A value that is present and reads as a finite number.
HasNumericValue(value) ==
    /\ value \notin {Null, Undefined}
    /\ Trim(value) # ""
    /\ NumberClass(value) = "finite"

\* C17: number sort missing-last. Sorted by a number column (consumption,
\* cost) in either direction, no record whose value is missing (null,
\* undefined) or not numeric stands before a record with a numeric value;
\* cost values [100, null, 50] sort ascending to [50, 100, null] and
\* descending to [100, 50, null].
C17_NumberMissingLast ==
    tablesVersion \in {"mui", "plain"} =>
        \A key \in {"consumption", "cost"}, direction \in {"asc", "desc"} :
            LET sorted == SortedWith(tablesVersion, tableRows,
                                     [key |-> key, direction |-> direction])
            IN  \A i, j \in 1..Len(sorted) :
                    (i < j /\ HasNumericValue(Get(sorted[j], key)))
                        => HasNumericValue(Get(sorted[i], key))

\* The fields of a bill that the comparator reads for a column.
KeyFields(columnKey) ==
    CASE columnKey = "service_period" -> {"service_start", "service_end", "bill_date"}
      [] columnKey = "location" -> {"city", "state", "zip"}
      [] OTHER -> {columnKey}

\* Two bills with identical sort keys for a column.
SameSortKey(a, b, columnKey) ==
    \A f \in KeyFields(columnKey) : Get(a, f) = Get(b, f)

\* The position of a bill in a list that holds it once.
PositionOf(list, bill) == CHOOSE k \in 1..Len(list) : list[k] = bill

\* C18: sort stability. For the active sort column, of whatever type
\* (number, date, string), and both directions, the comparator returns
\* exactly 0 for two records of rows with identical sort keys (for a record
\* and itself too), and sortedRows, which holds the same records as rows,
\* keeps such records in the relative order they have in rows.
C18_SortStability ==
    (tablesVersion \in {"mui", "plain"} /\ HasColumn(sortConfig.key)) =>
        \A sorted \in {sortedRows}, column \in {FindColumn(sortConfig.key)} :
            /\ Len(sorted) = Len(tableRows)
            /\ {sorted[k] : k \in 1..Len(sorted)} = {tableRows[k] : k \in 1..Len(tableRows)}
            /\ \A i, j \in 1..Len(tableRows) :
                 SameSortKey(tableRows[i], tableRows[j], column.key) =>
                    /\ \A direction \in {1, -1} :
                         Comparator(tablesVersion, tableRows[i], tableRows[j],
                                    column, direction) = 0
                    /\ i < j => PositionOf(sorted, tableRows[i])
                                    < PositionOf(sorted, tableRows[j])

\* The MUI version sorted by cost ascending: bills 4 and 1, both of cost 100,
\* follow bill 3 of cost 50 in the order they have in rows.
C18_Witness ==
    /\ tablesVersion = "mui"
    /\ sortConfig = [key |-> "cost", direction |-> "asc"]
    /\ tableRows = <<BillD, BillC, BillA>>
    /\ sortedRows = <<BillC, BillD, BillA>>

DateColumns == {"bill_date", "service_period", "timestamp_upload"}

\* The date key the mounted version compares a bill by.
DateKey(version, row, key) ==
    IF version = "mui" THEN getDateSortValue(row, key)
    ELSE normaliseDate(getSortValue(row, key))

\* C24: date sort, missing last (both versions). For a date column the
\* comparator returns +1 for (missing, present), -1 for (present, missing)
\* and 0 for (missing, missing) in both directions, where missing is a date
\* key that is absent or unparsable; for two different parsable dates it
\* returns the sign of their difference times the direction; so in
\* sortedRows every bill with a parsable date stands before every bill
\* without one, and the bills with parsable dates stand in the order of their
\* timestamps, ascending or descending as the direction says.
C24_DateMissingLast ==
    (tablesVersion \in {"mui", "plain"} /\ sortConfig.key \in DateColumns) =>
        \A sorted \in {sortedRows}, column \in {FindColumn(sortConfig.key)},
           current \in {IF sortConfig.direction = "asc" THEN 1 ELSE -1} :
          \A keys \in {[k \in 1..Len(tableRows) |->
                            DateKey(tablesVersion, tableRows[k], column.key)]},
             sortedKeys \in {[k \in 1..Len(sorted) |->
                            DateKey(tablesVersion, sorted[k], column.key)]} :
            /\ \A i, j \in 1..Len(tableRows), direction \in {1, -1} :
                 \A result \in {Comparator(tablesVersion, tableRows[i], tableRows[j],
                                           column, direction)} :
                    /\ (~keys[i].valid /\ ~keys[j].valid) => result = 0
                    /\ (~keys[i].valid /\ keys[j].valid) => result = 1
                    /\ (keys[i].valid /\ ~keys[j].valid) => result = -1
                    /\ (keys[i].valid /\ keys[j].valid /\ keys[i].t < keys[j].t)
                          => result = -direction
                    /\ (keys[i].valid /\ keys[j].valid /\ keys[i].t > keys[j].t)
                          => result = direction
            /\ Len(sorted) = Len(tableRows)
            /\ \A p, q \in 1..Len(sorted) :
                 p < q =>
                    /\ sortedKeys[q].valid => sortedKeys[p].valid
                    /\ (sortedKeys[p].valid /\ sortedKeys[q].valid) =>
                          (sortedKeys[p].t - sortedKeys[q].t) * current <= 0

\* The plain version sorted by bill_date ascending after two clicks: the
\* bill whose bill_date is the text n/a was fetched first and stands last,
\* behind the bills of January and February.
C24_Witness ==
    /\ tablesVersion = "plain"
    /\ sortConfig = [key |-> "bill_date", direction |-> "asc"]
    /\ tableRows = <<BillE, BillC, BillA>>
    /\ sortedRows = <<BillA, BillC, BillE>>

\* A bill as it is without a service_end.
WithoutServiceEnd(bill) == [bill EXCEPT !["service_end"] = Null]

\* C25: service-period tie-break (MUI version). For the service_period
\* column, two bills whose primary date keys are equal are compared by their
\* service_end dates: a missing service_end goes after a present one in both
\* directions, two different end dates give the sign of their difference
\* times the direction, and the comparator returns 0 only when the end dates
\* are equal or both missing; sortedRows orders the bills of one primary
\* date accordingly.
C25_ServicePeriodTieBreak ==
    (tablesVersion = "mui" /\ sortConfig.key = "service_period") =>
        \A sorted \in {sortedRows}, column \in {FindColumn("service_period")},
           current \in {IF sortConfig.direction = "asc" THEN 1 ELSE -1},
           bills \in {{tableRows[k] : k \in 1..Len(tableRows)}
                        \cup {WithoutServiceEnd(tableRows[k]) : k \in 1..Len(tableRows)}} :
            /\ \A a, b \in bills, direction \in {1, -1} :
                 \A keyA \in {getDateSortValue(a, "service_period")},
                    keyB \in {getDateSortValue(b, "service_period")},
                    endA \in {parseDateValue(Get(a, "service_end"))},
                    endB \in {parseDateValue(Get(b, "service_end"))},
                    result \in {MuiComparator(a, b, column, direction)} :
                    (keyA.valid /\ keyB.valid /\ keyA.t = keyB.t) =>
                        /\ (~endA.valid /\ ~endB.valid) => result = 0
                        /\ (~endA.valid /\ endB.valid) => result = 1
                        /\ (endA.valid /\ ~endB.valid) => result = -1
                        /\ (endA.valid /\ endB.valid) =>
                              result = Sign(endA.t - endB.t) * direction
            /\ \A p, q \in 1..Len(sorted) :
                 \A keyP \in {getDateSortValue(sorted[p], "service_period")},
                    keyQ \in {getDateSortValue(sorted[q], "service_period")},
                    endP \in {parseDateValue(Get(sorted[p], "service_end"))},
                    endQ \in {parseDateValue(Get(sorted[q], "service_end"))} :
                    (p < q /\ keyP.valid /\ keyQ.valid /\ keyP.t = keyQ.t) =>
                        /\ endQ.valid => endP.valid
                        /\ (endP.valid /\ endQ.valid) => (endP.t - endQ.t) * current <= 0

\* The MUI version sorted by service_period descending: the three bills
\* start on 2023-12-01; the one that ends on 2024-01-15 stands first, the
\* one that ends on 2023-12-31 second, the one without a service_end last.
C25_Witness ==
    /\ tablesVersion = "mui"
    /\ sortConfig = [key |-> "service_period", direction |-> "desc"]
    /\ tableRows = <<BillE, BillA, BillC>>
    /\ sortedRows = <<BillC, BillA, BillE>>

\* C29: Tables fetch consistency (both versions). Whenever no fetch is in
\* flight, the displayed rows, totalCount and totalPages are those of the
\* response to the request issued for the current parameters (of its
\* success, or the empty page a failure leaves), in whatever order the
\* responses arrived; and loading is true whenever a fetch is in flight.
C29_FetchConsistency ==
    /\ fetches # {} => loading
    /\ (tablesVersion \in {"mui", "plain"} /\ fetches = {}) =>
          \A current \in {Params(tablesVersion, utility, page, pageSize, sortConfig)} :
              \/ /\ tableRows = ServerResults(current)
                 /\ totalCount = ServerCount(current)
                 /\ totalPages = ServerPages(current)
              \/ /\ tableRows = <<>>
                 /\ totalCount = 0
                 /\ totalPages = 1

\* C30: page bounds (both versions). Whenever no fetch is in flight, after
\* any utility changes, page-size changes, page clicks, sort clicks and
\* fetch completions that succeed or fail, 1 <= page <= totalPages.
C30_PageBounds ==
    (tablesVersion \in {"mui", "plain"} /\ fetches = {}) =>
        (1 <= page /\ page <= totalPages)

====
